---------------------------- MODULE Spec2Model ----------------------------
(***************************************************************************)
(* Model of the dish-similarity service: the POST /nearby pipeline         *)
(* (source-dish profiling, place search, enrichment, comparative ranking,  *)
(* response assembly) and the text parsers it is built from.               *)
(*                                                                         *)
(* Text is a sequence of tokens.  A token is one character ("7", "-",      *)
(* " ", "\n", "\r"), or a literal the code searches for as a whole         *)
(* ("Restaurant ", "hasExact=", "confidence=", "reason=", "true").         *)
(* Substring search, trimming, splitting and the regular expressions are   *)
(* computed on these sequences.                                            *)
(***************************************************************************)
EXTENDS Integers, Sequences, FiniteSets, TLC

VARIABLES
    pc,          \* position of the POST /nearby handler
    env,         \* process.env: which API keys are configured
    req,         \* the parsed request body
    dishProfile, \* result of analyzeDishAtRestaurant, or NoProfile
    queries,     \* searchQueries
    searches,    \* per query: Pending or the list the search promise resolved to
    places,      \* uniquePlaces
    tasks,       \* per enriched candidate: Pending, NullResult or the restaurant
    ranked,      \* the list handed to intelligentDishAnalysis, and its reply
    response,    \* the NextResponse returned, or NoResponse
    calls,       \* upstream calls issued so far, by kind
    probe        \* a single function applied to drawn inputs (function-level specs)

vars == <<pc, env, req, dishProfile, queries, searches, places, tasks, ranked,
          response, calls, probe>>

pipelineVars == <<pc, env, req, dishProfile, queries, searches, places, tasks,
                  ranked, response, calls>>

---------------------------------------------------------------------------
(* Text helpers: JavaScript string operations on token sequences.           *)

Min(a, b) == IF a < b THEN a ELSE b
Max(a, b) == IF a > b THEN a ELSE b

DigitChars == <<"0", "1", "2", "3", "4", "5", "6", "7", "8", "9">>

IsDigit(c) == \E d \in 1..10 : DigitChars[d] = c

DigitVal(c) == (CHOOSE d \in 1..10 : DigitChars[d] = c) - 1

\* White space as String.prototype.trim sees it.
IsSpace(c) == c \in {" ", "\n", "\r"}

\* What the regular expression's dot matches: anything but a line terminator.
IsDot(c) == c \notin {"\n", "\r"}

\* Template-literal rendering of a non-negative integer.
RECURSIVE NumToText(_)
NumToText(n) ==
    IF n < 10 THEN <<DigitChars[n + 1]>>
    ELSE NumToText(n \div 10) \o <<DigitChars[(n % 10) + 1]>>

\* parseInt on a run of decimal digits.
RECURSIVE ParseInt(_)
ParseInt(ds) ==
    IF Len(ds) = 0 THEN 0
    ELSE 10 * ParseInt(SubSeq(ds, 1, Len(ds) - 1)) + DigitVal(ds[Len(ds)])

\* needle occurs in hay starting at position k
MatchAt(hay, needle, k) ==
    /\ k >= 1
    /\ k + Len(needle) - 1 <= Len(hay)
    /\ \A j \in 1..Len(needle) : hay[k + j - 1] = needle[j]

\* String.prototype.includes
Includes(hay, needle) == \E k \in 1..(Len(hay) + 1) : MatchAt(hay, needle, k)

\* String.prototype.trim
Trim(s) ==
    LET keep == {k \in 1..Len(s) : ~IsSpace(s[k])}
    IN  IF keep = {} THEN <<>>
        ELSE SubSeq(s, CHOOSE k \in keep : \A j \in keep : k <= j,
                       CHOOSE k \in keep : \A j \in keep : k >= j)

\* String.prototype.split('\n')
RECURSIVE SplitLines(_)
SplitLines(s) ==
    LET nl == {k \in 1..Len(s) : s[k] = "\n"}
    IN  IF nl = {} THEN <<s>>
        ELSE LET k == CHOOSE x \in nl : \A y \in nl : x <= y
             IN  <<SubSeq(s, 1, k - 1)>> \o SplitLines(SubSeq(s, k + 1, Len(s)))

\* Array.prototype.slice(0, n)
Slice(s, n) == SubSeq(s, 1, Min(n, Len(s)))

Range(s) == {s[k] : k \in 1..Len(s)}

---------------------------------------------------------------------------
(* Comparative Ranker: parseIntelligentAnalysisResponse.                    *)

NoConfidence == -1

\* `Restaurant ${i + 1}:` for the 1-based index i
Marker(i) == <<"Restaurant ">> \o NumToText(i) \o <<":">>

\* lines.find(l => l.includes(marker)): the first such line, <<>> for undefined
\* (no line of the filtered list is empty)
FindLine(lines, i) ==
    LET hits == {k \in 1..Len(lines) : Includes(lines[k], Marker(i))}
    IN  IF hits = {} THEN <<>>
        ELSE lines[CHOOSE k \in hits : \A j \in hits : k <= j]

\* line.match(/confidence=(\d+)/) then parseInt, NoConfidence for null
ConfidenceOf(line) ==
    LET ks == {k \in 1..(Len(line) - 1) :
                  line[k] = "confidence=" /\ IsDigit(line[k + 1])}
    IN  IF ks = {} THEN NoConfidence
        ELSE LET k == CHOOSE x \in ks : \A y \in ks : x <= y
                 stops == {j \in (k + 1)..Len(line) : ~IsDigit(line[j])}
                 last == IF stops = {} THEN Len(line)
                         ELSE (CHOOSE x \in stops : \A y \in stops : x <= y) - 1
             IN  ParseInt(SubSeq(line, k + 1, last))

\* line.match(/reason=(.+)$/) then trim; <<>> for null and for the empty string,
\* which the code treats alike (!reasoning)
ReasoningOf(line) ==
    LET ks == {k \in 1..(Len(line) - 1) :
                  /\ line[k] = "reason="
                  /\ \A j \in (k + 1)..Len(line) : IsDot(line[j])}
    IN  IF ks = {} THEN <<>>
        ELSE Trim(SubSeq(line, (CHOOSE x \in ks : \A y \in ks : x <= y) + 1,
                         Len(line)))

\* Math.min(Math.max(confidence, 0), 100)
ClampConfidence(c) == Min(Max(c, 0), 100)

\* a verdict pushed without its reasoning
VerdictWithoutReason(line) ==
    [hasExactDish   |-> Includes(line, <<"hasExact=", "true">>),
     hasSimilarDish |-> Includes(line, <<"hasSimilar=", "true">>),
     confidence     |-> ClampConfidence(ConfidenceOf(line))]

\* results.push({ hasExactDish, hasSimilarDish, confidence, reasoning })
VerdictOf(line) ==
    [hasExactDish   |-> Includes(line, <<"hasExact=", "true">>),
     hasSimilarDish |-> Includes(line, <<"hasSimilar=", "true">>),
     confidence     |-> ClampConfidence(ConfidenceOf(line)),
     reasoning      |-> ReasoningOf(line)]

\* an Error that gives neither the restaurant's name nor the line
ParseErrorBare(i, name, line) ==
    <<"Failed to parse intelligent analysis for restaurant ">> \o NumToText(i)

\* the Error thrown from the catch block of the loop body
ParseError(i, name, line) ==
    <<"Failed to parse intelligent analysis for restaurant ">> \o NumToText(i)
      \o <<": ">> \o name \o <<". Line: ">> \o line \o <<". Error: ">>
      \o <<"Failed to parse confidence or reasoning for restaurant ">>
      \o NumToText(i)

\* the Error thrown when no line carries the marker
MissingError(i, name) ==
    <<"AI failed to analyze", " restaurant ">> \o NumToText(i) \o <<": ">>
      \o name \o <<". Missing from response.">>

IncompleteError(n, got) ==
    <<"Analysis incomplete: Expected ">> \o NumToText(n) \o <<" results, got ">>
      \o NumToText(got)

Returned(v) == [ok |-> TRUE, verdicts |-> v, error |-> <<>>]
Thrown(e) == [ok |-> FALSE, verdicts |-> <<>>, error |-> e]

\* the for loop from index i on, results being what was pushed so far
RECURSIVE ParseLoop(_, _, _, _)
ParseLoop(lines, restaurants, i, results) ==
    IF i > Len(restaurants)
    THEN IF Len(results) # Len(restaurants)
         THEN Thrown(IncompleteError(Len(restaurants), Len(results)))
         ELSE Returned(results)
    ELSE LET line == FindLine(lines, i)
         IN  IF line = <<>>
             THEN Thrown(MissingError(i, restaurants[i].name))
             ELSE IF ConfidenceOf(line) = NoConfidence \/ ReasoningOf(line) = <<>>
                  THEN Thrown(ParseError(i, restaurants[i].name, line))
                  ELSE ParseLoop(lines, restaurants, i + 1,
                                 Append(results, VerdictOf(line)))

\* responseText.split('\n').filter(line => line.trim())
ReplyLines(responseText) ==
    LET NotBlank(l) == Trim(l) # <<>>
    IN  SelectSeq(SplitLines(responseText), NotBlank)

\* a parser that skips what it cannot read instead of throwing
RECURSIVE LenientLoop(_, _, _, _)
LenientLoop(lines, restaurants, i, results) ==
    IF i > Len(restaurants) THEN Returned(results)
    ELSE LET line == FindLine(lines, i)
         IN  IF \/ line = <<>>
                \/ ConfidenceOf(line) = NoConfidence
                \/ ReasoningOf(line) = <<>>
             THEN LenientLoop(lines, restaurants, i + 1, results)
             ELSE LenientLoop(lines, restaurants, i + 1,
                              Append(results, VerdictOf(line)))

parseLenient(responseText, restaurants) ==
    LenientLoop(ReplyLines(responseText), restaurants, 1, <<>>)

parseIntelligentAnalysisResponse(responseText, restaurants) ==
    ParseLoop(ReplyLines(responseText), restaurants, 1, <<>>)

---------------------------------------------------------------------------
(* JSON.parse on token text.  A string literal is one token that starts     *)
(* and ends with a double quote; a digit is a number.                       *)

StringLits == {"\"Pho\"", "\"Tacos\"", "\"flavors\"", "\"style\"", "\"spicy\"",
               "\"textures\""}

NoVal == [t |-> "undefined", s |-> "", items |-> <<>>]
StrVal(tok) == [t |-> "string", s |-> tok, items |-> <<>>]
NumVal(tok) == [t |-> "number", s |-> tok, items |-> <<>>]
ArrVal(items) == [t |-> "array", s |-> "", items |-> items]
\* an object: items holds its members, each <<key, value>>
ObjVal(members) == [t |-> "object", s |-> "", items |-> members]

SyntaxError == [ok |-> FALSE, next |-> 0, val |-> NoVal]
Parsed(next, val) == [ok |-> TRUE, next |-> next, val |-> val]

\* the first position from k on that holds no white space
SkipWs(toks, k) ==
    LET stops == {j \in k..Len(toks) : ~IsSpace(toks[j])}
    IN  IF stops = {} THEN Len(toks) + 1
        ELSE CHOOSE x \in stops : \A y \in stops : x <= y

RECURSIVE JsonValue(_, _)
RECURSIVE JsonElements(_, _, _)
RECURSIVE JsonMembers(_, _, _)

JsonValue(toks, k0) ==
    LET k == SkipWs(toks, k0)
    IN  IF k > Len(toks) THEN SyntaxError
        ELSE IF toks[k] \in StringLits THEN Parsed(k + 1, StrVal(toks[k]))
        ELSE IF IsDigit(toks[k]) THEN Parsed(k + 1, NumVal(toks[k]))
        ELSE IF toks[k] = "["
             THEN LET j == SkipWs(toks, k + 1)
                  IN  IF j <= Len(toks) /\ toks[j] = "]"
                      THEN Parsed(j + 1, ArrVal(<<>>))
                      ELSE JsonElements(toks, k + 1, <<>>)
        ELSE IF toks[k] = "{"
             THEN LET j == SkipWs(toks, k + 1)
                  IN  IF j <= Len(toks) /\ toks[j] = "}"
                      THEN Parsed(j + 1, ObjVal(<<>>))
                      ELSE JsonMembers(toks, k + 1, <<>>)
        ELSE SyntaxError

JsonElements(toks, k, acc) ==
    LET v == JsonValue(toks, k)
        j == SkipWs(toks, v.next)
    IN  IF ~v.ok \/ j > Len(toks) THEN SyntaxError
        ELSE IF toks[j] = "," THEN JsonElements(toks, j + 1, Append(acc, v.val))
        ELSE IF toks[j] = "]" THEN Parsed(j + 1, ArrVal(Append(acc, v.val)))
        ELSE SyntaxError

JsonMembers(toks, k0, acc) ==
    LET k == SkipWs(toks, k0)
        c == SkipWs(toks, k + 1)
    IN  IF k > Len(toks) \/ c > Len(toks) THEN SyntaxError
        ELSE IF toks[k] \notin StringLits \/ toks[c] # ":" THEN SyntaxError
        ELSE LET v == JsonValue(toks, c + 1)
                 j == SkipWs(toks, v.next)
             IN  IF ~v.ok \/ j > Len(toks) THEN SyntaxError
                 ELSE IF toks[j] = ","
                      THEN JsonMembers(toks, j + 1, Append(acc, <<toks[k], v.val>>))
                 ELSE IF toks[j] = "}"
                      THEN Parsed(j + 1, ObjVal(Append(acc, <<toks[k], v.val>>)))
                 ELSE SyntaxError

\* JSON.parse: one value and nothing but white space after it
JsonParse(toks) ==
    LET v == JsonValue(toks, 1)
    IN  IF v.ok /\ SkipWs(toks, v.next) > Len(toks) THEN v ELSE SyntaxError

\* text.match(/<open>[\s\S]*<close>/): from the first open to the last close
\* after it, <<>> for null
GreedyMatch(text, open, close) ==
    LET os == {k \in 1..Len(text) : text[k] = open}
    IN  IF os = {} THEN <<>>
        ELSE LET a == CHOOSE x \in os : \A y \in os : x <= y
                 cs == {k \in (a + 1)..Len(text) : text[k] = close}
             IN  IF cs = {} THEN <<>>
                 ELSE SubSeq(text, a, CHOOSE x \in cs : \A y \in cs : x >= y)

\* obj[key], NoVal for undefined; the last member of that key wins
Member(obj, key) ==
    LET ks == {k \in 1..Len(obj.items) : obj.items[k][1] = key}
    IN  IF ks = {} THEN NoVal
        ELSE obj.items[CHOOSE x \in ks : \A y \in ks : x >= y][2]

---------------------------------------------------------------------------
(* Review Miner and Taste Profiler.  A generation call answers with         *)
(* gen = [ok, generations, text]: the call rejected, resolved without a     *)
(* generation, or resolved with a text.                                     *)

GenFailed == [ok |-> FALSE, generations |-> 0, text |-> <<>>]
GenEmpty == [ok |-> TRUE, generations |-> 0, text |-> <<>>]
GenText(t) == [ok |-> TRUE, generations |-> 1, text |-> t]

MenuResult(dishes, confidence, made) ==
    [value |-> [dishes |-> dishes, confidence |-> confidence], calls |-> made,
     raised |-> FALSE]

\* return { dishes: [], confidence: 10 } after the try block
MenuFallback == MenuResult(<<>>, 10, 1)

MenuRethrown == [MenuFallback EXCEPT !.raised = TRUE]

\* catch (error) { console.error(...) }, then the fallback return
MenuCaught == MenuFallback

\* extractMenuFromReviews: the value returned, the model calls made, and
\* whether an exception left the function
extractMenuFromReviews(reviews, gen) ==
    IF Len(reviews) = 0 THEN MenuResult(<<>>, 0, 0)
    ELSE IF ~gen.ok \/ gen.generations = 0 THEN MenuCaught
    ELSE LET jsonMatch == GreedyMatch(Trim(gen.text), "[", "]")
             parsed == JsonParse(jsonMatch)
             dishes == parsed.val.items
         IN  IF jsonMatch = <<>> THEN MenuFallback
             ELSE IF ~parsed.ok THEN MenuCaught
             ELSE MenuResult(Slice(dishes, 15),
                             IF Len(dishes) > 0 THEN Min(Len(dishes) * 10, 90)
                             ELSE 10,
                             1)

TasteResult(flavors, style, others, confidence, made) ==
    [value |-> [flavors |-> flavors, style |-> style, others |-> others,
                confidence |-> confidence],
     calls |-> made, raised |-> FALSE]

\* { flavors: [], style: 'Unknown', confidence }
TasteDefault(confidence, made) ==
    TasteResult(ArrVal(<<>>), StrVal("\"Unknown\""), {}, confidence, made)

\* return { flavors: [], style: 'Unknown', confidence: 20 } after the try block
TasteFallback == TasteDefault(20, 1)

TasteRethrown == [TasteFallback EXCEPT !.raised = TRUE]

\* catch (error) { console.error(...) }, then the fallback return
TasteCaught == TasteFallback

\* extractTasteProfile: the value returned, the model calls made, and whether
\* an exception left the function
extractTasteProfile(reviews, restaurantName, gen) ==
    IF Len(reviews) = 0 THEN TasteDefault(0, 0)
    ELSE IF ~gen.ok \/ gen.generations = 0 THEN TasteCaught
    ELSE LET jsonMatch == GreedyMatch(Trim(gen.text), "{", "}")
             parsed == JsonParse(jsonMatch)
             profile == parsed.val
         IN  IF jsonMatch = <<>> THEN TasteFallback
             ELSE IF ~parsed.ok THEN TasteCaught
             ELSE TasteResult(Member(profile, "\"flavors\""),
                              Member(profile, "\"style\""),
                              {profile.items[k][1] : k \in 1..Len(profile.items)}
                                \ {"\"flavors\"", "\"style\""},
                              IF Len(reviews) > 3 THEN 80 ELSE 50,
                              1)

\* a review as the places service returns it
Review == [text |-> <<"g", "o", "o", "d">>, rating |-> 5]

Reviews(n) == [k \in 1..n |-> Review]

\* "[" item, item, ... "]" with n string items
RECURSIVE ArrayItems(_)
ArrayItems(n) ==
    IF n = 0 THEN <<>>
    ELSE IF n = 1 THEN <<"\"Pho\"">>
    ELSE ArrayItems(n - 1) \o <<",", " ", "\"Tacos\"">>

ArrayText(n) == <<"[">> \o ArrayItems(n) \o <<"]">>

ObjectText ==
    <<"{", "\n", " ", "\"flavors\"", ":", " ", "[", "\"spicy\"", "]", ",", "\n",
      " ", "\"style\"", ":", " ", "\"Pho\"", ",", " ", "\"textures\"", ":", " ",
      "[", "]", "\n", "}">>

Prose == <<"S", "u", "r", "e", ":", " ">>

\* What a generation call may answer, tagged by what the answer is:
\*   failed     the call rejects
\*   nothing    it resolves without a generation
\*   array      a JSON array, alone or inside prose
\*   object     a JSON object, alone or inside prose
\*   prose      text holding no JSON
\*   truncated  JSON cut short, with or without a closing bracket left in it
\*   brackets   prose that uses brackets and braces
GenSamples ==
    {[kind |-> "failed", gen |-> GenFailed],
     [kind |-> "nothing", gen |-> GenEmpty],
     [kind |-> "prose", gen |-> GenText(Prose)],
     [kind |-> "prose", gen |-> GenText(<<>>)],
     [kind |-> "truncated", gen |-> GenText(<<"[", "\"Pho\"", ",", " ">>)],
     [kind |-> "truncated",
      gen |-> GenText(<<"[", "\"Pho\"", ",", "[", "\"Tacos\"", "]">>)],
     [kind |-> "truncated", gen |-> GenText(<<"{", "\"style\"", ":", " ">>)],
     [kind |-> "truncated",
      gen |-> GenText(<<"{", "\"flavors\"", ":", "{", "}", ",">>)],
     [kind |-> "brackets",
      gen |-> GenText(<<"s", "e", "e", " ", "[", "1", "]", " ", "o", "r", " ",
                        "[", "2", "]", " ", "{", "a", "}", " ", "{", "b", "}">>)],
     [kind |-> "object", gen |-> GenText(ObjectText)],
     [kind |-> "object", gen |-> GenText(<<"{", "}">>)],
     [kind |-> "object", gen |-> GenText(Prose \o ObjectText \o <<"\n">>)]}
      \cup {[kind |-> "array", gen |-> GenText(ArrayText(n))] : n \in {0, 1, 2, 9, 10, 16}}
      \cup {[kind |-> "array", gen |-> GenText(Prose \o ArrayText(2) \o <<" ", "\n">>)]}

---------------------------------------------------------------------------
(* Upstream data: what the places service and the model may answer.         *)

\* the name of the place with identifier p
PlaceName(p) ==
    CASE p % 3 = 1 -> <<"k", "f", "c">>
      [] p % 3 = 2 -> <<"T", "a", "c", "o">>
      [] OTHER     -> <<"M", "y", " ", "K", "F", "C">>

NoRating == -1

\* the rating of place p in tenths of a star, NoRating when the record has none
PlaceRating(p) == IF p % 4 = 0 THEN NoRating ELSE 35 + 5 * (p % 3)

\* a GooglePlace as a text search returns it
Place(p) == [place_id |-> p, name |-> PlaceName(p), rating |-> PlaceRating(p)]

\* places p, p + 1, ... (n of them), in that order
Window(p, n) == [k \in 1..n |-> Place(p + k - 1)]

FewLen == 2
ManyLen == 6
ManyStep == 4

\* The list the text search of the q-th query finds: a short one for the
\* second query, for the others one longer than the per-query cap that
\* overlaps the next one.
FoundBy(q) ==
    CASE q = 1 -> Window(1, ManyLen)
      [] q = 2 -> Window(3, FewLen)
      [] OTHER -> Window(1 + ManyStep * (q - 2), ManyLen)

\* What the text search for the q-th query may answer: the request rejects,
\* the body carries no results field, or it carries the list.
SearchOutcomes(q) ==
    {[ok |-> FALSE, hasResults |-> FALSE, results |-> <<>>],
     [ok |-> TRUE, hasResults |-> FALSE, results |-> <<>>],
     [ok |-> TRUE, hasResults |-> TRUE, results |-> FoundBy(q)]}

\* places whose detail request may fail
FlakyPlaces == {3, 4}

\* What the detail request for a place may answer: the request rejects, the
\* body carries no result, or a result with the place's reviews.
DetailOutcomes(p) ==
    {[ok |-> TRUE, hasResult |-> TRUE, reviews |-> Reviews(2 * (p % 3))]}
      \cup (IF p \in FlakyPlaces
            THEN {[ok |-> FALSE, hasResult |-> FALSE, reviews |-> <<>>],
                  [ok |-> TRUE, hasResult |-> FALSE, reviews |-> <<>>]}
            ELSE {})

\* what the model answers to the menu prompt for the reviews of place p
MenuGen(p) ==
    CASE p % 4 = 1 -> GenText(ArrayText(2))
      [] p % 4 = 2 -> GenText(Prose)
      [] p % 4 = 3 -> GenFailed
      [] OTHER     -> GenText(ArrayText(1))

\* what the model answers to the taste prompt for the reviews of place p
TasteGen(p) ==
    CASE p % 5 = 1 -> GenText(ObjectText)
      [] p % 5 = 2 -> GenText(<<"{", "}">>)
      [] p % 5 = 3 -> GenEmpty
      [] OTHER     -> GenText(Prose \o ObjectText)

\* One reply line of the ranker in the format the prompt asks for, the text
\* after "confidence=" and after "reason=" being given.
ReplyLine(i, exact, conf, reason) ==
    Marker(i) \o <<" ", "hasExact=", exact, ",", " ", "hasSimilar=", "true",
                   ",", " ", "confidence=">> \o conf
              \o <<",", " ", "reason=">> \o reason

\* confidence values a reply line may carry
ConfidenceSamples == {0, 75, 100, 150}

SomeReason == <<"s", "p", "i", "c", "y">>

\* The lines the model may give for restaurant i: well formed ones, one with
\* a signed confidence, ones lacking the confidence or the reason, one ended
\* by a carriage return, one whose reason mentions the next restaurant's
\* marker, and <<>> for no line at all.
LineChoices(i) ==
    {ReplyLine(i, "false", NumToText(c), SomeReason) : c \in ConfidenceSamples}
      \cup {ReplyLine(i, "true", <<"9", "0", "%">>, SomeReason),
            ReplyLine(i, "false", <<"-", "5">>, SomeReason),
            ReplyLine(i, "false", <<"h", "i", "g", "h">>, SomeReason),
            ReplyLine(i, "false", <<"6", "0">>, <<" ">>),
            ReplyLine(i, "false", <<"6", "0">>, SomeReason \o <<"\r">>),
            ReplyLine(i, "false", <<"6", "0">>, <<"a", "s", " ">> \o Marker(i + 1)),
            Marker(i) \o <<" ", "n", "o">>,
            <<>>}

\* the reply made of one chosen line per restaurant, in order, after a preamble
RECURSIVE JoinLines(_)
JoinLines(ls) ==
    IF Len(ls) = 0 THEN <<>>
    ELSE (IF ls[1] = <<>> THEN <<>> ELSE ls[1] \o <<"\n">>) \o JoinLines(Tail(ls))

ReplyText(ls) == <<"A", "n", "a", "l", "y", "s", "i", "s", "\n", "\n">> \o JoinLines(ls)

RECURSIVE LineTuples(_)
LineTuples(n) ==
    IF n = 0 THEN {<<>>}
    ELSE {Append(t, l) : t \in LineTuples(n - 1), l \in LineChoices(n)}

---------------------------------------------------------------------------
(* Source Dish Profiler: analyzeDishAtRestaurant and its extractors.        *)

UpperTokens == {"K", "F", "C", "T", "M", "A", "Thai", "Mexican", "Fried"}

\* String.prototype.toLowerCase, token by token
LowerToken(c) ==
    CASE c = "K" -> "k" [] c = "F" -> "f" [] c = "C" -> "c" [] c = "T" -> "t"
      [] c = "M" -> "m" [] c = "A" -> "a" [] c = "Thai" -> "thai"
      [] c = "Mexican" -> "mexican" [] c = "Fried" -> "fried"
      [] OTHER -> c

ToLowerCase(text) == [k \in 1..Len(text) |-> LowerToken(text[k])]

Cuisines == <<"american", "chinese", "italian", "mexican", "thai", "indian",
              "japanese", "korean", "mediterranean", "french">>

CuisineNames == <<"American", "Chinese", "Italian", "Mexican", "Thai", "Indian",
                  "Japanese", "Korean", "Mediterranean", "French">>

Flavors == <<"spicy", "sweet", "savory", "tangy", "sour", "bitter", "umami",
             "smoky", "crispy", "tender">>

Styles == <<"fried", "grilled", "baked", "roasted", "steamed", "sauteed",
            "braised">>

\* the first listed word the lower-cased analysis includes, or the default
FirstIncluded(analysis, words, shown, default) ==
    LET hits == {k \in 1..Len(words) : Includes(ToLowerCase(analysis), <<words[k]>>)}
    IN  IF hits = {} THEN default
        ELSE shown[CHOOSE x \in hits : \A y \in hits : x <= y]

extractCuisineType(analysis) ==
    FirstIncluded(analysis, Cuisines, CuisineNames, "American")

extractFlavorProfile(analysis) ==
    LET Mentioned(f) == Includes(ToLowerCase(analysis), <<f>>)
    IN  SelectSeq(Flavors, Mentioned)

extractCookingStyle(analysis) ==
    FirstIncluded(analysis, Styles, Styles, "prepared")

NoProfile ==
    [present |-> FALSE, cuisineType |-> "", flavorProfile |-> <<>>,
     cookingStyle |-> ""]

\* analyzeDishAtRestaurant: the profile returned, or the error rethrown from
\* its catch block (a rejected call, or no generation to read the text of)
analyzeDishAtRestaurant(gen) ==
    IF ~gen.ok \/ gen.generations = 0
    THEN [raised |-> TRUE, profile |-> NoProfile]
    ELSE [raised |-> FALSE,
          profile |-> [present |-> TRUE,
                       cuisineType |-> extractCuisineType(Trim(gen.text)),
                       flavorProfile |-> extractFlavorProfile(Trim(gen.text)),
                       cookingStyle |-> extractCookingStyle(Trim(gen.text))]]

\* what the model may answer to the source-dish prompt
ProfileGens ==
    {GenFailed, GenEmpty,
     GenText(<<"A", " ", "Thai", " ", "d", "i", "s", "h", ",", " ", "spicy", " ",
               "Fried", "\n">>),
     GenText(<<"s", "o", "u", "p">>)}

---------------------------------------------------------------------------
(* POST /nearby.                                                            *)

NoProbe == [fn |-> "none"]

NoCoord == -1000

Dish == <<"p", "h", "o">>

Sentinel == <<"Address not specified">>

NoSource == [given |-> FALSE, name |-> <<>>]
Source(name) == [given |-> TRUE, name |-> name]

\* request bodies: dish given or not, origin restaurant absent, named, or
\* named by the sentinel, each coordinate absent, zero or non-zero
Requests ==
    [dish : {<<>>, Dish},
     restaurant : {NoSource, Source(<<"K", "F", "C">>), Source(Sentinel)},
     latitude : {NoCoord, 0, 30},
     longitude : {NoCoord, 0, 97}]

Envs == [placesKey : BOOLEAN, cohereKey : BOOLEAN]

\* a validation that lets every coordinate through
NeverFalsy(x) == FALSE

\* !x for a coordinate: undefined and 0 are falsy
Falsy(x) == x = NoCoord \/ x = 0

NoResponse == [status |-> 0, restaurants |-> <<>>, error |-> <<>>,
               dishProfile |-> NoProfile]

\* NextResponse.json({ error }, { status })
ErrorResponse(status, error) ==
    [status |-> status, restaurants |-> <<>>, error |-> error,
     dishProfile |-> NoProfile]

NotRanked == [asked |-> FALSE, restaurants |-> <<>>, context |-> FALSE,
              answered |-> FALSE, reply |-> GenFailed]

NoCalls == [profile |-> 0, search |-> 0, detail |-> 0, mine |-> 0, rank |-> 0]

Init ==
    /\ pc = "start"
    /\ env \in Envs
    /\ req \in Requests
    /\ dishProfile = NoProfile
    /\ queries = <<>>
    /\ searches = <<>>
    /\ places = <<>>
    /\ tasks = <<>>
    /\ ranked = NotRanked
    /\ response = NoResponse
    /\ calls = NoCalls
    /\ probe = NoProbe

\* a query list with a fifth query for the dish alone
SearchQueriesWide(dish, profile) ==
    <<(<<"\"">> \o dish \o <<"\"", " restaurant">>), dish \o <<" food">>, dish>>
      \o (IF profile.present /\ profile.cuisineType # ""
          THEN <<<<profile.cuisineType, " restaurant">>>>
          ELSE <<>>)
      \o <<<<"restaurant">>>>

\* searchQueries for the dish and the profile
SearchQueries(dish, profile) ==
    <<(<<"\"">> \o dish \o <<"\"", " restaurant">>), dish \o <<" food">>>>
      \o (IF profile.present /\ profile.cuisineType # ""
          THEN <<<<profile.cuisineType, " restaurant">>>>
          ELSE <<>>)
      \o <<<<"restaurant">>>>

\* how a text search ended: the request rejected ("rejected"), the body had
\* no results field ("nolist"), or it had one ("list")
OutcomeKind(o) == IF ~o.ok THEN "rejected" ELSE IF o.hasResults THEN "list" ELSE "nolist"

PendingSearch == [settled |-> FALSE, outcome |-> "pending", results |-> <<>>]

\* the search requests are all issued before the first of them is awaited
StartSearch(profile) ==
    LET qs == SearchQueries(req.dish, profile)
    IN  /\ dishProfile' = profile
        /\ queries' = qs
        /\ searches' = [q \in 1..Len(qs) |-> PendingSearch]
        /\ calls' = [calls EXCEPT !.search = @ + Len(qs)]
        /\ pc' = "searching"

Respond(r) ==
    /\ response' = r
    /\ pc' = "done"

\* request.json(), the validation, and the call of the profiler or the searches
Validate ==
    /\ pc = "start"
    /\ IF req.dish = <<>>
       THEN /\ Respond(ErrorResponse(400, <<"Dish name is required">>))
            /\ UNCHANGED <<dishProfile, queries, searches, calls>>
       ELSE IF Falsy(req.latitude) \/ Falsy(req.longitude)
       THEN /\ Respond(ErrorResponse(400, <<"Location is required">>))
            /\ UNCHANGED <<dishProfile, queries, searches, calls>>
       ELSE IF ~env.placesKey
       THEN /\ Respond(ErrorResponse(500, <<"Google Places API key not configured">>))
            /\ UNCHANGED <<dishProfile, queries, searches, calls>>
       ELSE IF req.restaurant.given /\ req.restaurant.name # Sentinel
       THEN /\ pc' = "profiling"
            /\ calls' = [calls EXCEPT !.profile = @ + 1]
            /\ UNCHANGED <<dishProfile, queries, searches, response>>
       ELSE /\ StartSearch(NoProfile)
            /\ UNCHANGED response
    /\ UNCHANGED <<env, req, places, tasks, ranked, probe>>

AfterProfileUncaught(got) ==
    IF got.raised
    THEN /\ Respond(ErrorResponse(500, <<"API Error: ", "upstream failure">>))
         /\ UNCHANGED <<dishProfile, queries, searches, calls>>
    ELSE /\ StartSearch(got.profile)
         /\ UNCHANGED response

\* try { dishProfile = await analyzeDishAtRestaurant(...) } catch { warn }
AfterProfile(got) ==
    /\ StartSearch(IF got.raised THEN NoProfile ELSE got.profile)
    /\ UNCHANGED response

\* the profiler's call settles
ProfileReply ==
    /\ pc = "profiling"
    /\ \E gen \in ProfileGens :
          /\ env.cohereKey \/ ~gen.ok
          /\ AfterProfile(analyzeDishAtRestaurant(gen))
    /\ UNCHANGED <<env, req, places, tasks, ranked, probe>>

\* response.data.results?.slice(0, 5) || [], and [] from the catch block
SearchResult(o) ==
    IF o.ok /\ o.hasResults THEN Slice(o.results, 5) ELSE <<>>

\* a search callback without its catch block: a rejected request ends the
\* handler in the catch block of POST
SearchReplyUncaught(q) ==
    /\ pc = "searching"
    /\ q \in 1..Len(searches)
    /\ ~searches[q].settled
    /\ \E o \in SearchOutcomes(q) :
          IF o.ok
          THEN /\ searches' = [searches EXCEPT ![q] =
                                  [settled |-> TRUE, outcome |-> OutcomeKind(o),
                                   results |-> SearchResult(o)]]
               /\ UNCHANGED <<pc, response>>
          ELSE /\ Respond(ErrorResponse(500, <<"API Error: ", "upstream failure">>))
               /\ UNCHANGED searches
    /\ UNCHANGED <<env, req, dishProfile, queries, places, tasks, ranked, calls,
                   probe>>

\* the text search of query q settles
SearchReply(q) ==
    /\ pc = "searching"
    /\ q \in 1..Len(searches)
    /\ ~searches[q].settled
    /\ \E o \in SearchOutcomes(q) :
          searches' = [searches EXCEPT ![q] =
                          [settled |-> TRUE, outcome |-> OutcomeKind(o),
                           results |-> SearchResult(o)]]
    /\ UNCHANGED <<pc, env, req, dishProfile, queries, places, tasks, ranked,
                   response, calls, probe>>

\* Array.prototype.flat on the settled search results
RECURSIVE Flat(_)
Flat(lists) == IF Len(lists) = 0 THEN <<>> ELSE lists[1] \o Flat(Tail(lists))

\* the elements of s at the positions in idx, in order
RECURSIVE PickFrom(_, _, _)
PickFrom(s, k, idx) ==
    IF k > Len(s) THEN <<>>
    ELSE (IF k \in idx THEN <<s[k]>> ELSE <<>>) \o PickFrom(s, k + 1, idx)

\* a filter that keeps the last occurrence of each place
LastOccurrences(allPlaces) ==
    PickFrom(allPlaces, 1,
             {k \in 1..Len(allPlaces) :
                 \A j \in (k + 1)..Len(allPlaces) :
                     allPlaces[j].place_id # allPlaces[k].place_id})

\* filter((place, index, self) => index === self.findIndex(same place_id))
FirstOccurrences(allPlaces) ==
    PickFrom(allPlaces, 1,
             {k \in 1..Len(allPlaces) :
                 \A j \in 1..(k - 1) : allPlaces[j].place_id # allPlaces[k].place_id})

KeepDuplicates(allPlaces) == Slice(allPlaces, 12)

\* uniquePlaces: first occurrences, at most 12
UniquePlaces(allPlaces) == Slice(FirstOccurrences(allPlaces), 12)

NoRestaurant ==
    [name |-> <<>>, rating |-> NoRating, placeId |-> 0,
     menuInsights |-> [dishes |-> <<>>, confidence |-> 0],
     tasteProfile |-> [flavors |-> NoVal, style |-> NoVal, others |-> {},
                       confidence |-> 0]]

PendingTask == [settled |-> FALSE, isNull |-> FALSE, r |-> NoRestaurant]

\* getRestaurantDetails for a place, given what the detail request answered:
\* null from the catch block, or the restaurant with its mined menu and taste
getRestaurantDetails(place, o, keyed) ==
    IF ~o.ok \/ ~o.hasResult
    THEN [isNull |-> TRUE, r |-> NoRestaurant, mined |-> 0]
    ELSE LET menu == extractMenuFromReviews(
                         o.reviews,
                         IF keyed THEN MenuGen(place.place_id) ELSE GenFailed)
             taste == extractTasteProfile(
                          o.reviews, place.name,
                          IF keyed THEN TasteGen(place.place_id) ELSE GenFailed)
         IN  [isNull |-> FALSE,
              r |-> [name |-> place.name, rating |-> place.rating,
                     placeId |-> place.place_id,
                     menuInsights |-> menu.value,
                     tasteProfile |-> taste.value],
              mined |-> menu.calls + taste.calls]

\* a batch that is read as soon as one of its promises has settled
AnySettled(promises) == \E k \in 1..Len(promises) : promises[k].settled

\* Promise.all resolves when every promise handed to it has settled
AllSettled(promises) == \A k \in 1..Len(promises) : promises[k].settled

\* enrichment of every candidate
EnrichEvery(uniquePlaces) == uniquePlaces

\* uniquePlaces.slice(0, 8): the candidates whose details are fetched
EnrichedPlaces(uniquePlaces) == Slice(uniquePlaces, 8)

\* Promise.all(searchPromises) resolves: merge, deduplicate, cap, and issue the
\* detail request of each of the first 8 candidates.  allSearchResults is not
\* read again and is dropped.
SearchesDone ==
    /\ pc = "searching"
    /\ AllSettled(searches)
    /\ LET allPlaces == Flat([q \in 1..Len(searches) |-> searches[q].results])
           uniquePlaces == UniquePlaces(allPlaces)
           enriched == EnrichedPlaces(uniquePlaces)
       IN  /\ places' = uniquePlaces
           /\ tasks' = [k \in 1..Len(enriched) |-> PendingTask]
           /\ calls' = [calls EXCEPT !.detail = @ + Len(enriched)]
    /\ searches' = <<>>
    /\ pc' = "enriching"
    /\ UNCHANGED <<env, req, dishProfile, queries, ranked, response, probe>>

\* enrichment that stores a result at its rank of completion: the k-th task to
\* complete is the one of the k-th candidate from the end
DetailSettleArrival(k) ==
    /\ pc = "enriching"
    /\ k \in 1..Len(tasks)
    /\ ~tasks[k].settled
    /\ \E o \in DetailOutcomes(places[Len(tasks) + 1 - k].place_id) :
          LET got == getRestaurantDetails(places[Len(tasks) + 1 - k], o,
                                          env.cohereKey)
          IN  /\ tasks' = [tasks EXCEPT ![k] =
                              [settled |-> TRUE, isNull |-> got.isNull, r |-> got.r]]
              /\ calls' = [calls EXCEPT !.mine = @ + got.mined]
    /\ UNCHANGED <<pc, env, req, dishProfile, queries, searches, places, ranked,
                   response, probe>>

\* the detail request of candidate k settles and its task runs to its end; the
\* task reads and writes nothing but its own place and result
DetailSettle(k) ==
    /\ pc = "enriching"
    /\ k \in 1..Len(tasks)
    /\ ~tasks[k].settled
    /\ \E o \in DetailOutcomes(places[k].place_id) :
          LET got == getRestaurantDetails(places[k], o, env.cohereKey)
          IN  /\ tasks' = [tasks EXCEPT ![k] =
                              [settled |-> TRUE, isNull |-> got.isNull, r |-> got.r]]
              /\ calls' = [calls EXCEPT !.mine = @ + got.mined]
    /\ UNCHANGED <<pc, env, req, dishProfile, queries, searches, places, ranked,
                   response, probe>>

\* a batch that is given up as soon as one detail fetch failed
ValidOrNothing(ts) ==
    IF \E k \in 1..Len(ts) : ts[k].isNull THEN <<>>
    ELSE [k \in 1..Len(ts) |-> ts[k].r]

\* detailedRestaurants.filter(r => r !== null)
ValidRestaurants(ts) ==
    LET NotNull(t) == ~t.isNull
        settled == SelectSeq(ts, NotNull)
    IN  [k \in 1..Len(settled) |-> settled[k].r]

\* a filter that compares the names as they are written
FilteredCaseSensitive(valid, source) ==
    LET Kept(r) == ~source.given \/ ~Includes(r.name, source.name)
    IN  SelectSeq(valid, Kept)

\* validRestaurants.filter(r => !sourceRestaurant ||
\*   !r.name.toLowerCase().includes(sourceRestaurant.name.toLowerCase()))
FilteredRestaurants(valid, source) ==
    LET Kept(r) == \/ ~source.given
                   \/ ~Includes(ToLowerCase(r.name), ToLowerCase(source.name))
    IN  SelectSeq(valid, Kept)

\* a catch block that reports every failure alike
CatchGeneric(message) == ErrorResponse(500, <<"API Error: ", "Unknown error occurred">>)

\* the catch block of POST: the 500 response for a thrown Error message
CatchResponse(message) ==
    IF Includes(message, <<"Cohere API key">>)
    THEN ErrorResponse(500, <<"Cohere API key", " not configured",
                              ". Please add COHERE_API_KEY to environment variables.">>)
    ELSE IF Includes(message, <<"Failed to parse analysis">>)
    THEN ErrorResponse(500, <<"AI Analysis Failed: ">> \o message)
    ELSE IF Includes(message, <<"AI failed to analyze">>)
    THEN ErrorResponse(500, <<"AI Analysis Incomplete: ">> \o message)
    ELSE ErrorResponse(500, <<"API Error: ">> \o message)

EmptyAsFailure == ErrorResponse(500, <<"API Error: ", "No restaurants found">>)

\* the explicit empty result
EmptyResponse ==
    [status |-> 200, restaurants |-> <<>>,
     error |-> <<"No restaurants found with sufficient data for analysis">>,
     dishProfile |-> NoProfile]

\* a ranker that asks the model once per restaurant
RankCallsPerRestaurant(n) == n

\* the generation calls intelligentDishAnalysis issues for n restaurants: the
\* one cohere.generate over the composite prompt
RankCalls(n) == 1

\* Promise.all over the detail tasks resolves: drop the nulls, return the empty
\* result or filter out the source restaurant and call intelligentDishAnalysis,
\* which throws without the key or builds the prompt and issues the one call
EnrichDone ==
    /\ pc = "enriching"
    /\ AllSettled(tasks)
    /\ LET validRestaurants == ValidRestaurants(tasks)
           filteredRestaurants == FilteredRestaurants(validRestaurants, req.restaurant)
       IN  IF Len(validRestaurants) = 0
           THEN /\ Respond(EmptyResponse)
                /\ UNCHANGED <<ranked, calls>>
           ELSE IF ~env.cohereKey
           THEN /\ Respond(CatchResponse(<<"Cohere API key", " not configured">>))
                /\ UNCHANGED <<ranked, calls>>
           ELSE /\ ranked' = [asked |-> TRUE, restaurants |-> filteredRestaurants,
                              context |-> dishProfile.present,
                              answered |-> FALSE, reply |-> GenFailed]
                /\ calls' = [calls EXCEPT
                                !.rank = @ + RankCalls(Len(filteredRestaurants))]
                /\ pc' = "ranking"
                /\ UNCHANGED response
    /\ UNCHANGED <<env, req, dishProfile, queries, searches, places, tasks, probe>>

\* rating || 0
RatingOrZero(r) == IF r = NoRating THEN 0 ELSE r

CompareConfidenceOnly(a, b) ==
    b.dishAvailability.confidence - a.dishAvailability.confidence

\* the comparator handed to sort
Compare(a, b) ==
    IF a.dishAvailability.confidence # b.dishAvailability.confidence
    THEN b.dishAvailability.confidence - a.dishAvailability.confidence
    ELSE RatingOrZero(b.rating) - RatingOrZero(a.rating)

\* e put behind every element of the sorted list that does not compare after it
InsertSorted(sorted, e) ==
    LET after == {k \in 1..Len(sorted) : Compare(sorted[k], e) > 0}
        at == IF after = {} THEN Len(sorted) + 1
              ELSE CHOOSE x \in after : \A y \in after : x <= y
    IN  SubSeq(sorted, 1, at - 1) \o <<e>> \o SubSeq(sorted, at, Len(sorted))

\* Array.prototype.sort with the comparator: sorted and stable
RECURSIVE SortFrom(_, _, _)
SortFrom(list, k, sorted) ==
    IF k > Len(list) THEN sorted
    ELSE SortFrom(list, k + 1, InsertSorted(sorted, list[k]))

Sort(list) == SortFrom(list, 1, <<>>)

\* filteredRestaurants.map((restaurant, index) => ({..., dishAvailability}))
RestaurantResults(restaurants, verdicts) ==
    [k \in 1..Len(restaurants) |->
        [name |-> restaurants[k].name, rating |-> restaurants[k].rating,
         placeId |-> restaurants[k].placeId,
         dishAvailability |-> verdicts[k],
         menuInsights |-> restaurants[k].menuInsights,
         tasteProfile |-> restaurants[k].tasteProfile]]

\* a response cut to its five best entries
RankedTopFive(restaurants, verdicts, profile) ==
    [status |-> 200,
     restaurants |-> Slice(Sort(RestaurantResults(restaurants, verdicts)), 5),
     error |-> <<>>,
     dishProfile |-> profile]

\* the response built from the parsed verdicts
RankedResponse(restaurants, verdicts, profile) ==
    [status |-> 200,
     restaurants |-> Slice(Sort(RestaurantResults(restaurants, verdicts)), 15),
     error |-> <<>>,
     dishProfile |-> profile]

\* confidence the reply gives restaurant i under a pattern
PatternConfidence(pattern, i) ==
    CASE pattern = "flat"   -> 75
      [] pattern = "rising" -> IF i % 2 = 0 THEN 100 ELSE 75
      [] OTHER              -> IF i = 1 THEN 0 ELSE 150

GoodLine(i, c) ==
    ReplyLine(i, IF i % 2 = 0 THEN "true" ELSE "false", NumToText(c), SomeReason)

\* the line for restaurant i with a defect: absent, signed confidence, or cut
\* before the reason
DefectLine(kind, i) ==
    CASE kind = "missing" -> <<>>
      [] kind = "signed"  -> ReplyLine(i, "false", <<"-", "5">>, SomeReason)
      [] OTHER            -> Marker(i) \o <<" ", "hasExact=", "false", ",", " ",
                                            "confidence=", "6">>

\* The line lists the model may answer for n restaurants: every line well
\* formed under a confidence pattern; one line defective; the reply cut off
\* (by the token limit) at the start of line d or inside it.
RankLines(n) ==
    {[i \in 1..n |-> GoodLine(i, PatternConfidence(pat, i))] :
         pat \in {"flat", "rising", "over"}}
      \cup {[i \in 1..n |-> IF i = d THEN DefectLine(kind, i) ELSE GoodLine(i, 75)] :
                d \in 1..n, kind \in {"missing", "signed", "cut"}}
      \cup {[i \in 1..n |-> IF i < d THEN GoodLine(i, 75)
                            ELSE IF i = d THEN DefectLine(kind, i) ELSE <<>>] :
                d \in 1..(n - 1), kind \in {"missing", "cut"}}

\* what the model may answer to the ranking prompt for n restaurants
RankGens(n) == {GenFailed, GenEmpty} \cup {GenText(ReplyText(ls)) : ls \in RankLines(n)}

\* the ranking call settles: a rejected call or a missing generation throws,
\* the text is trimmed and parsed, and the response is built
RankReply ==
    /\ pc = "ranking"
    /\ \E gen \in RankGens(Len(ranked.restaurants)) :
          /\ ranked' = [ranked EXCEPT !.answered = TRUE, !.reply = gen]
          /\ IF ~gen.ok
             THEN Respond(CatchResponse(<<"upstream failure">>))
             ELSE IF gen.generations = 0
             THEN Respond(CatchResponse(<<"Cannot read properties of undefined">>))
             ELSE LET parsed == parseIntelligentAnalysisResponse(Trim(gen.text),
                                                                 ranked.restaurants)
                  IN  IF ~parsed.ok
                      THEN Respond(CatchResponse(parsed.error))
                      ELSE Respond(RankedResponse(ranked.restaurants,
                                                  parsed.verdicts, dishProfile))
    /\ UNCHANGED <<env, req, dishProfile, queries, searches, places, tasks, calls,
                   probe>>

Next ==
    \/ Validate
    \/ ProfileReply
    \/ \E q \in 1..4 : SearchReply(q)
    \/ SearchesDone
    \/ \E k \in 1..8 : DetailSettle(k)
    \/ EnrichDone
    \/ RankReply

Spec == Init /\ [][Next]_vars

---------------------------------------------------------------------------
(* Properties of POST /nearby.                                              *)

\* the ranking call was answered with a text
RankText == pc = "done" /\ ranked.answered /\ ranked.reply.generations = 1

RankedLines == ReplyLines(Trim(ranked.reply.text))

\* no line of the reply carries the marker of restaurant i
LineMissing(lines, i) ==
    \A k \in 1..Len(lines) : ~Includes(lines[k], Marker(i))

\* the line found for restaurant i gives no confidence or no reason
LineUnreadable(lines, i) ==
    /\ ~LineMissing(lines, i)
    /\ \/ ConfidenceOf(FindLine(lines, i)) = NoConfidence
       \/ ReasoningOf(FindLine(lines, i)) = <<>>

\* the response is a 500 whose error text names restaurant i by index and name
NamesRestaurant(i) ==
    /\ response.status = 500
    /\ Includes(response.error,
                NumToText(i) \o <<": ">> \o ranked.restaurants[i].name)

\* C3 as stated: whenever the reply has no line for some restaurant i, the
\* request ends in a 500 whose message names restaurant i, without a list.
C3_EveryMissingNamed ==
    RankText =>
        LET lines == RankedLines
        IN  \A i \in 1..Len(ranked.restaurants) :
                LineMissing(lines, i) =>
                    NamesRestaurant(i) /\ response.restaurants = <<>>

\* C3 amended: whenever the reply has no line for some restaurant, the request
\* ends in a 500 without a list; the message is that of the first restaurant
\* whose line is missing or unreadable, and when that line is missing it is
\* the "AI failed to analyze restaurant i: <name>" message.
C3_FirstFailureNamed ==
    RankText =>
        LET lines == RankedLines
            n == Len(ranked.restaurants)
            bad == {i \in 1..n : LineMissing(lines, i) \/ LineUnreadable(lines, i)}
            first == CHOOSE i \in bad : \A j \in bad : i <= j
        IN  (\E i \in bad : LineMissing(lines, i)) =>
                /\ response.status = 500
                /\ response.restaurants = <<>>
                /\ NamesRestaurant(first)
                /\ LineMissing(lines, first) =>
                      response.error =
                          <<"AI Analysis Incomplete: ", "AI failed to analyze",
                            " restaurant ">> \o NumToText(first) \o <<": ">>
                            \o ranked.restaurants[first].name
                            \o <<". Missing from response.">>

\* The reply for five restaurants lacks the line of the third only, and the
\* request ended in a 500 naming the third.
C3_Witness ==
    /\ RankText
    /\ Len(ranked.restaurants) = 5
    /\ \A i \in 1..5 : LineMissing(RankedLines, i) <=> i = 3
    /\ NamesRestaurant(3)

\* C4 as stated: the ranker's model call is made only for a non-empty list,
\* and a run that ends with no restaurant to rank returns the explicit empty
\* result.
C4_RankerOnlyNonEmpty ==
    /\ calls.rank > 0 => Len(ranked.restaurants) > 0
    /\ pc = "done" /\ response.status = 200 /\ response.restaurants = <<>>
         => response.error # <<>>

\* the searches have settled and found no candidate
NoCandidates ==
    /\ pc \in {"enriching", "ranking", "done"}
    /\ calls.search > 0
    /\ places = <<>>

\* C5: when the searches yield no candidate, the request ends in a non-error
\* response with an empty restaurants list and an explanatory field, and the
\* ranker is not invoked.
C5_NoCandidatesEmptyResult ==
    NoCandidates =>
        /\ pc # "ranking"
        /\ calls.rank = 0
        /\ ~ranked.asked
        /\ pc = "done" =>
              /\ response.status = 200
              /\ response.restaurants = <<>>
              /\ response.error # <<>>

\* All searches settled empty and the request has been answered.
C5_Witness == NoCandidates /\ pc = "done" /\ response.status = 200

\* rating counted as 0 when missing
SortRating(r) == IF r.rating = NoRating THEN 0 ELSE r.rating

\* C6: in a successful response A stands before B only if A's confidence is
\* higher, or equal with A's rating (0 when missing) not lower.
C6_SortedByConfidenceThenRating ==
    pc = "done" /\ response.status = 200 =>
        \A a, b \in 1..Len(response.restaurants) :
            a < b =>
                LET A == response.restaurants[a]
                    B == response.restaurants[b]
                IN  \/ A.dishAvailability.confidence > B.dishAvailability.confidence
                    \/ /\ A.dishAvailability.confidence = B.dishAvailability.confidence
                       /\ SortRating(A) >= SortRating(B)

\* A successful response in which two restaurants tie on confidence and the
\* one found later, with the higher rating, stands before one without rating.
C6_Witness ==
    /\ pc = "done"
    /\ response.status = 200
    /\ \E a, b \in 1..Len(response.restaurants) :
          /\ a < b
          /\ response.restaurants[a].dishAvailability.confidence
               = response.restaurants[b].dishAvailability.confidence
          /\ response.restaurants[b].rating = NoRating
          /\ response.restaurants[a].rating > 0
          /\ response.restaurants[a].placeId > response.restaurants[b].placeId

\* C7: the candidate list never holds two entries with the same place
\* identifier and never more than 12 entries.
C7_UniqueAtMostTwelve ==
    /\ Len(places) <= 12
    /\ \A i, j \in 1..Len(places) : i # j => places[i].place_id # places[j].place_id

\* Overlapping result lists with 13 distinct places were merged into the 12
\* first ones.
C7_Witness ==
    /\ pc = "enriching"
    /\ Len(places) = 12
    /\ \A k \in 1..12 : places[k].place_id = k

\* the source-dish profile was asked for and did not arrive
ProfilingFailed ==
    /\ calls.profile = 1
    /\ pc # "profiling"
    /\ ~dishProfile.present

\* C10: a failed profiling call is not fatal: the run goes on without a
\* profile (three queries, no cuisine query, no source-dish context in the
\* ranking prompt, no profile in the response), and an error response then
\* comes from the ranking stage or the missing generation key only.
C10_ProfilingFailureNotFatal ==
    ProfilingFailed =>
        /\ dishProfile = NoProfile
        /\ Len(queries) = 3
        /\ calls.search = 3
        /\ ranked.asked => ~ranked.context
        /\ pc = "done" =>
              /\ response.status \in {200, 500}
              /\ response.status = 500 => ranked.answered \/ ~env.cohereKey
              /\ response.status = 200 => response.dishProfile = NoProfile

\* Profiling failed with the key configured and the request still ended in a
\* ranked list.
C10_Witness ==
    /\ ProfilingFailed
    /\ env.cohereKey
    /\ pc = "done"
    /\ response.status = 200
    /\ Len(response.restaurants) > 1

\* the request lacks the dish or a coordinate
InputMissing ==
    \/ req.dish = <<>>
    \/ req.latitude = NoCoord
    \/ req.longitude = NoCoord

PassesValidation ==
    /\ req.dish # <<>>
    /\ req.latitude \notin {NoCoord, 0}
    /\ req.longitude \notin {NoCoord, 0}

\* C12 as stated: with the places key or the generation key absent, every
\* request that passes validation ends in a 500 whose error names the
\* missing key.
C12_MissingKeyIs500 ==
    pc = "done" /\ PassesValidation /\ (~env.placesKey \/ ~env.cohereKey) =>
        /\ response.status = 500
        /\ IF ~env.placesKey
           THEN response.error = <<"Google Places API key not configured">>
           ELSE Len(response.error) > 0 /\ response.error[1] = "Cohere API key"

\* name contains the origin restaurant's name, letter case aside
ContainsSource(name) ==
    Includes(ToLowerCase(name), ToLowerCase(req.restaurant.name))

\* C13: when an origin restaurant is supplied, no restaurant of the response
\* has a name that contains the origin's name case-insensitively.
C13_SourceExcluded ==
    pc = "done" /\ req.restaurant.given =>
        \A k \in 1..Len(response.restaurants) :
            ~ContainsSource(response.restaurants[k].name)

\* A ranked list was returned for an origin restaurant although an enriched
\* candidate written in another letter case carried the origin's name.
C13_Witness ==
    /\ pc = "done"
    /\ response.status = 200
    /\ req.restaurant.given
    /\ Len(response.restaurants) > 0
    /\ \E k \in 1..Len(tasks) :
          /\ ~tasks[k].isNull
          /\ ContainsSource(tasks[k].r.name)
          /\ ~Includes(tasks[k].r.name, req.restaurant.name)

\* what the settled searches contribute to the merge, by query index: the
\* list of a query answered with one, nothing for the others
Contributions ==
    [q \in 1..Len(searches) |->
        IF searches[q].outcome = "list" THEN searches[q].results ELSE <<>>]

\* C14: while the searches are in flight no response is given and the request
\* goes on; a rejected query holds an empty list; and the candidate list is
\* the deduplicated merge of the lists of the queries that were answered.
C14_FailedSearchTolerated ==
    [][pc = "searching" =>
          /\ pc' \in {"searching", "enriching"}
          /\ response' = NoResponse
          /\ \A q \in 1..Len(searches') :
                searches'[q].outcome = "rejected" => searches'[q].results = <<>>
          /\ pc' = "enriching" =>
                /\ \A q \in 1..Len(searches) : searches[q].settled
                /\ places' = UniquePlaces(Flat(Contributions))]_vars

\* The first and the last of three queries were rejected, the second was
\* answered with places, and all have settled.
C14_Witness ==
    /\ pc = "searching"
    /\ Len(searches) = 3
    /\ searches[1].outcome = "rejected"
    /\ searches[2].outcome = "list" /\ Len(searches[2].results) > 0
    /\ searches[3].outcome = "rejected"

\* the place identifiers, in candidate order, of the enriched candidates
\* whose detail fetch succeeded and whose name does not carry the origin's
SurvivingIds ==
    LET keep == {k \in 1..Len(tasks) :
                    /\ ~tasks[k].isNull
                    /\ ~(req.restaurant.given /\ ContainsSource(places[k].name))}
        kept == PickFrom(places, 1, keep)
    IN  [k \in 1..Len(kept) |-> kept[k].place_id]

\* C15: a failed detail fetch drops its candidate only: no response is given
\* while the batch is in flight, the ranker receives every other candidate
\* whose fetch succeeded (the origin restaurant aside), in candidate order,
\* and an error response after enrichment comes from the ranking stage.
C15_FailedFetchDropsOne ==
    /\ pc = "enriching" => response = NoResponse
    /\ ranked.asked =>
          [k \in 1..Len(ranked.restaurants) |-> ranked.restaurants[k].placeId]
              = SurvivingIds
    /\ pc = "done" /\ env.cohereKey /\ (\E k \in 1..Len(tasks) : ~tasks[k].isNull)
          => ranked.asked
    /\ pc = "done" /\ response.status = 500 /\ Len(tasks) > 0
          => ranked.answered \/ ~env.cohereKey

\* Two detail fetches of the batch failed and the request ended in a ranked
\* list of the other candidates.
C15_Witness ==
    /\ pc = "done"
    /\ response.status = 200
    /\ Cardinality({k \in 1..Len(tasks) : tasks[k].isNull}) = 2
    /\ Len(response.restaurants) >= 3
    /\ Len(response.restaurants) = Len(SurvivingIds)

\* v has the four fields of a verdict, each with a value
CompleteVerdict(v) ==
    /\ DOMAIN v = {"hasExactDish", "hasSimilarDish", "confidence", "reasoning"}
    /\ v.hasExactDish \in BOOLEAN
    /\ v.hasSimilarDish \in BOOLEAN
    /\ v.confidence \in Nat
    /\ v.reasoning # <<>>

\* C16: a successful response holds at most 15 restaurants, each with a
\* verdict whose four fields are defined.
C16_AtMostFifteenComplete ==
    pc = "done" /\ response.status = 200 =>
        /\ Len(response.restaurants) <= 15
        /\ \A k \in 1..Len(response.restaurants) :
              CompleteVerdict(response.restaurants[k].dishAvailability)

\* All eight enriched candidates were ranked and returned.
C16_Witness ==
    /\ pc = "done"
    /\ response.status = 200
    /\ Len(response.restaurants) = 8
    /\ \E k \in 1..8 : response.restaurants[k].dishAvailability.hasExactDish
    /\ \E k \in 1..8 : ~response.restaurants[k].dishAvailability.hasExactDish

\* C17: a request makes at most one ranking model call, and an invocation of
\* the ranker that reaches the model makes exactly one, whatever the number
\* of restaurants it was given.
C17_OneRankingCall ==
    /\ calls.rank <= 1
    /\ ranked.asked => calls.rank = 1
    /\ ranked.answered => ranked.asked /\ calls.rank = 1

\* The ranker was given eight restaurants and answered after one call.
C17_Witness ==
    /\ ranked.answered
    /\ Len(ranked.restaurants) = 8
    /\ calls.rank = 1
    /\ response.status = 200

\* C19: the ranking model call is issued only after every enrichment task of
\* the request has settled, and no detail fetch or mining call is made once
\* it has been issued.
C19_RankAfterEnrichment ==
    [][/\ (ranked'.asked \/ calls'.rank > 0) =>
             /\ pc' \in {"ranking", "done"}
             /\ \A k \in 1..Len(tasks') : tasks'[k].settled
             /\ Len(tasks') = Min(Len(places'), 8)
       /\ ranked.asked =>
             /\ tasks' = tasks
             /\ calls'.detail = calls.detail
             /\ calls'.mine = calls.mine]_vars

\* The ranking call is in flight after eight enrichment tasks with mining
\* calls have settled.
C19_Witness ==
    /\ pc = "ranking"
    /\ ranked.asked
    /\ Len(tasks) = 8
    /\ calls.mine > 8

\* the candidate list the upstream replies determine: the lists the text
\* search returned, taken by query index whatever the order of arrival
MergedByQuery ==
    UniquePlaces(Flat([q \in 1..Len(searches) |->
                          IF searches[q].outcome = "list"
                          THEN Slice(FoundBy(q), 5) ELSE <<>>]))

\* the restaurant the upstream replies determine for a place whose detail
\* request is answered
EnrichedFrom(place) ==
    LET o == CHOOSE x \in DetailOutcomes(place.place_id) : x.ok /\ x.hasResult
    IN  getRestaurantDetails(place, o, env.cohereKey).r

\* the restaurants the settled tasks determine for the ranker, by task index
RankerInput ==
    LET keep == {k \in 1..Len(tasks) :
                    /\ ~tasks[k].isNull
                    /\ ~(req.restaurant.given /\ ContainsSource(tasks[k].r.name))}
        kept == PickFrom(tasks, 1, keep)
    IN  [k \in 1..Len(kept) |-> kept[k].r]

\* position of the restaurant with place identifier id in the ranker's input
PositionOf(id) ==
    CHOOSE i \in 1..Len(ranked.restaurants) : ranked.restaurants[i].placeId = id

\* C18: the response is determined by the upstream replies, not by the order
\* in which searches and enrichment tasks complete: the candidate list is the
\* merge by query index, a task writes the result of its own candidate and no
\* other, the ranker's input is the settled results by task index, and the
\* response pairs each restaurant with the verdict of its index, ties in
\* confidence and rating standing in index order.
C18_CompletionOrderIrrelevant ==
    [][/\ pc = "searching" /\ pc' = "enriching" => places' = MergedByQuery
       /\ pc = "enriching" =>
             \A k \in 1..Len(tasks) :
                 /\ tasks[k].settled => tasks'[k] = tasks[k]
                 /\ ~tasks[k].settled /\ tasks'[k].settled /\ ~tasks'[k].isNull =>
                       tasks'[k].r = EnrichedFrom(places[k])
       /\ pc = "enriching" /\ pc' = "ranking" =>
             ranked'.restaurants = RankerInput
       /\ pc = "ranking" /\ pc' = "done" /\ response'.status = 200 =>
             \A out \in {response'.restaurants} :
             \A verdicts \in {parseIntelligentAnalysisResponse(
                                  Trim(ranked'.reply.text),
                                  ranked.restaurants).verdicts} :
                 /\ Len(out) = Len(ranked.restaurants)
                 /\ \A a \in 1..Len(out) :
                       LET i == PositionOf(out[a].placeId)
                       IN  /\ out[a].name = ranked.restaurants[i].name
                           /\ out[a].menuInsights = ranked.restaurants[i].menuInsights
                           /\ out[a].tasteProfile = ranked.restaurants[i].tasteProfile
                           /\ out[a].dishAvailability = verdicts[i]
                 /\ \A a, b \in 1..Len(out) :
                       /\ a < b
                       /\ out[a].dishAvailability.confidence
                            = out[b].dishAvailability.confidence
                       /\ SortRating(out[a]) = SortRating(out[b])
                       => PositionOf(out[a].placeId) < PositionOf(out[b].placeId)]_vars

\* Four searches and eight enrichment tasks ran side by side and the ranked
\* list holds two restaurants that tie in confidence and rating.
C18_Witness ==
    /\ pc = "done"
    /\ response.status = 200
    /\ Len(queries) = 4
    /\ Len(tasks) = 8
    /\ \E a, b \in 1..Len(response.restaurants) :
          /\ a < b
          /\ response.restaurants[a].dishAvailability.confidence
               = response.restaurants[b].dishAvailability.confidence
          /\ SortRating(response.restaurants[a]) = SortRating(response.restaurants[b])

\* what upstream returned, query after query, each list cut to its first five
UpstreamMerged ==
    Flat([q \in 1..Len(searches) |->
             IF searches[q].outcome = "list"
             THEN SubSeq(FoundBy(q), 1, Min(5, Len(FoundBy(q)))) ELSE <<>>])

\* C23: the candidate list is the merged search results (queries in their
\* order, the first five results of each in order) with only the first
\* occurrence of each place identifier kept, in the same relative order, cut
\* to its first 12 entries.
C23_FirstOccurrenceOrder ==
    [][pc = "searching" /\ pc' = "enriching" =>
          \A merged \in {UpstreamMerged} :
             LET firsts == {k \in 1..Len(merged) :
                               \A j \in 1..(k - 1) :
                                   merged[j].place_id # merged[k].place_id}
                 Nth(i) == CHOOSE k \in firsts :
                               Cardinality({j \in firsts : j <= k}) = i
             IN  /\ Len(places') = Min(12, Cardinality(firsts))
                 /\ \A i \in 1..Len(places') : places'[i] = merged[Nth(i)]]_vars

\* Of three queries the first and the last were answered: the first list was
\* cut to five places, and the place both lists hold stands once, where the
\* first list has it.
C23_Witness ==
    /\ pc = "enriching"
    /\ Len(queries) = 3
    /\ Len(places) = 9
    /\ \A k \in 1..9 : places[k].place_id = k

\* place identifiers of the first n candidates
FirstIds(n) == {places[k].place_id : k \in 1..Min(n, Len(places))}

\* C26: at most 8 candidates are enriched and they are the first 8 of the
\* candidate list: one detail fetch is issued for each of them and for no
\* other, each task holds the result of its own candidate, and the ranker's
\* input and the response hold none of the later candidates.
C26_FirstEightEnriched ==
    /\ Len(tasks) = Min(8, Len(places))
    /\ calls.detail = Len(tasks)
    /\ \A k \in 1..Len(tasks) :
          tasks[k].settled /\ ~tasks[k].isNull
              => tasks[k].r.placeId = places[k].place_id
    /\ ranked.asked =>
          \A i \in 1..Len(ranked.restaurants) :
              ranked.restaurants[i].placeId \in FirstIds(8)
    /\ \A i \in 1..Len(response.restaurants) :
          response.restaurants[i].placeId \in FirstIds(8)

C26_Witness ==
    /\ pc = "done"
    /\ Len(places) > 8
    /\ calls.detail = 8
    /\ response.status = 200
    /\ Len(response.restaurants) = 8

\* the entry of the response is the restaurant r with a verdict attached
EntryOf(entry, r) ==
    /\ entry.placeId = r.placeId
    /\ entry.name = r.name
    /\ entry.rating = r.rating
    /\ entry.menuInsights = r.menuInsights
    /\ entry.tasteProfile = r.tasteProfile

\* C27: on a run that ends with ranked results, the response's restaurants are
\* a permutation of the list handed to the ranker (the enriched restaurants
\* without the source restaurant): same length, every restaurant present
\* exactly once; the cut to 15 removes nothing.
C27_ResponseIsPermutation ==
    pc = "done" /\ response.status = 200 /\ ranked.answered =>
        /\ Len(ranked.restaurants) <= 15
        /\ Len(response.restaurants) = Len(ranked.restaurants)
        /\ ranked.restaurants = RankerInput
        /\ \A i \in 1..Len(ranked.restaurants) :
              Cardinality({j \in 1..Len(response.restaurants) :
                              EntryOf(response.restaurants[j],
                                      ranked.restaurants[i])}) = 1

C27_Witness ==
    /\ pc = "done"
    /\ response.status = 200
    /\ ranked.answered
    /\ req.restaurant.given
    /\ Len(response.restaurants) = 7
    /\ Len(tasks) = 8
    /\ response.restaurants[1].placeId # ranked.restaurants[1].placeId

\* C28 as stated: a request with a non-empty dish and a numeric latitude and
\* longitude, a coordinate of 0 included, is never answered with the 400
\* 'Location is required'.
C28_NumericLocationAccepted ==
    /\ req.dish # <<>>
    /\ req.latitude # NoCoord
    /\ req.longitude # NoCoord
    => ~(response.status = 400 /\ response.error = <<"Location is required">>)

\* the enrichment tasks that reached the miners
MinedTasks == {k \in 1..Len(tasks) : tasks[k].settled /\ ~tasks[k].isNull}

\* generation calls made so far
GenerationCalls == calls.profile + calls.mine + calls.rank

\* C29: one request issues at most 4 text searches, 8 detail fetches and 18
\* generation calls (1 for the profile, at most 2 for each enriched
\* candidate, 1 for the ranking); each call is issued once, whether it fails
\* or not: one search per query, one fetch per enriched candidate, one
\* ranking call.
C29_CallBudget ==
    /\ calls.search = Len(queries) /\ calls.search <= 4
    /\ calls.detail = Len(tasks) /\ calls.detail <= 8
    /\ calls.profile <= 1
    /\ calls.mine <= 2 * Cardinality(MinedTasks)
    /\ calls.rank = (IF ranked.asked THEN 1 ELSE 0)
    /\ GenerationCalls <= 18

\* four searches, eight fetches, the profile call, two mining calls for each
\* of the six candidates that have reviews, and a ranking call that failed
\* and was not repeated
C29_Witness ==
    /\ pc = "done"
    /\ calls = [profile |-> 1, search |-> 4, detail |-> 8, mine |-> 12,
                rank |-> 1]
    /\ ranked.answered /\ ~ranked.reply.ok
    /\ response.status = 500

---------------------------------------------------------------------------
(* Function-level specification of the ranker's parser.                     *)

MaxProbeN == 2

Idle ==
    /\ pc = "idle"
    /\ env = [placesKey |-> TRUE, cohereKey |-> TRUE]
    /\ req = <<>>
    /\ dishProfile = <<>>
    /\ queries = <<>>
    /\ searches = <<>>
    /\ places = <<>>
    /\ tasks = <<>>
    /\ ranked = <<>>
    /\ response = <<>>
    /\ calls = <<>>

ProbeRestaurants(n) == [k \in 1..n |-> [name |-> PlaceName(k)]]

InitRank ==
    /\ Idle
    /\ \E n \in 0..MaxProbeN : \E ls \in LineTuples(n) :
          probe = [fn |-> "parse", restaurants |-> ProbeRestaurants(n),
                   lines |-> ls, text |-> ReplyText(ls), done |-> FALSE,
                   out |-> Thrown(<<>>)]

\* intelligentDishAnalysis hands the trimmed reply to the parser
ApplyParse ==
    /\ probe.fn = "parse"
    /\ ~probe.done
    /\ probe' = [probe EXCEPT !.done = TRUE,
                    !.out = parseIntelligentAnalysisResponse(Trim(probe.text),
                                                             probe.restaurants)]
    /\ UNCHANGED pipelineVars

NextRank == ApplyParse

SpecRank == InitRank /\ [][NextRank]_vars

ParseDone == probe.fn = "parse" /\ probe.done

\* C1: a run of the ranker's parser over N restaurants returns exactly N
\* verdicts or raises; it never returns a shorter or longer list.
C1_LengthOrRaise ==
    ParseDone /\ probe.out.ok =>
        Len(probe.out.verdicts) = Len(probe.restaurants)

\* The parser raised on the second of two restaurants, the first line being
\* well formed: nothing is returned for the first either.
C1_Witness ==
    /\ ParseDone
    /\ Len(probe.restaurants) = 2
    /\ probe.lines[1] = ReplyLine(1, "false", NumToText(75), SomeReason)
    /\ probe.lines[2] = <<>>
    /\ ~probe.out.ok

\* what a reply line carries between "confidence=" and the next comma
EmittedConfidence(line) ==
    LET ks == {k \in 1..Len(line) : line[k] = "confidence="}
        k == CHOOSE x \in ks : \A y \in ks : x <= y
        cs == {j \in (k + 1)..Len(line) : line[j] = ","}
        c == CHOOSE x \in cs : \A y \in cs : x <= y
    IN  SubSeq(line, k + 1, c - 1)

\* an integer in decimal, with or without a minus sign
IsSignedInteger(t) ==
    LET ds == IF Len(t) > 0 /\ t[1] = "-" THEN Tail(t) ELSE t
    IN  Len(ds) > 0 /\ \A k \in 1..Len(ds) : IsDigit(ds[k])

SignedValue(t) ==
    IF t[1] = "-" THEN 0 - ParseInt(Tail(t)) ELSE ParseInt(t)

\* a line in the requested format whose confidence is an integer of any sign
IntegerLine(i, line) ==
    \E t \in {NumToText(c) : c \in ConfidenceSamples} \cup {<<"-", "5">>} :
        line = ReplyLine(i, "false", t, SomeReason)

\* C2: whatever integer the model emits after "confidence=", above 100 and
\* negative ones included, the verdict carries it clamped into [0,100].
C2_ClampedWhateverEmitted ==
    ParseDone /\ (\A i \in 1..Len(probe.lines) : IntegerLine(i, probe.lines[i])) =>
        /\ probe.out.ok
        /\ \A i \in 1..Len(probe.lines) :
              LET v == SignedValue(EmittedConfidence(probe.lines[i]))
              IN  /\ probe.out.verdicts[i].confidence \in 0..100
                  /\ v > 100 => probe.out.verdicts[i].confidence = 100
                  /\ v < 0 => probe.out.verdicts[i].confidence = 0
                  /\ v \in 0..100 => probe.out.verdicts[i].confidence = v

\* the error names restaurant i and quotes the line found for it
QuotesLine(lines, i) ==
    Includes(probe.out.error,
             <<"Failed to parse intelligent analysis for restaurant ">>
               \o NumToText(i) \o <<": ">> \o probe.restaurants[i].name
               \o <<". Line: ">> \o FindLine(lines, i) \o <<". Error: ">>)

\* C24 as stated: whenever the line of some restaurant i is present but gives
\* no confidence or no reason, the parser raises an error naming restaurant i
\* and quoting its line, and returns no verdict.
C24_EveryUnreadableNamed ==
    ParseDone =>
        \A lines \in {ReplyLines(Trim(probe.text))} :
        \A i \in 1..Len(probe.restaurants) :
            LineUnreadable(lines, i) =>
                /\ ~probe.out.ok
                /\ probe.out.verdicts = <<>>
                /\ QuotesLine(lines, i)

\* C24 amended: whenever the line of some restaurant is present but gives no
\* confidence or no reason, the parser raises and returns no verdict; the
\* error is that of the first restaurant whose line is missing or unreadable,
\* and when that line is unreadable it names the restaurant and quotes the
\* line.
C24_FirstUnreadableNamed ==
    ParseDone =>
        \A lines \in {ReplyLines(Trim(probe.text))} :
            LET n == Len(probe.restaurants)
                bad == {i \in 1..n : LineMissing(lines, i) \/ LineUnreadable(lines, i)}
                first == CHOOSE i \in bad : \A j \in bad : i <= j
            IN  (\E i \in 1..n : LineUnreadable(lines, i)) =>
                    /\ ~probe.out.ok
                    /\ probe.out.verdicts = <<>>
                    /\ LineUnreadable(lines, first) => QuotesLine(lines, first)

\* The first of two lines was well formed and the second gave no confidence:
\* the parser raised, quoting the second line, and returned nothing.
C24_Witness ==
    /\ ParseDone
    /\ Len(probe.restaurants) = 2
    /\ probe.lines[1] = ReplyLine(1, "false", NumToText(75), SomeReason)
    /\ probe.lines[2] = ReplyLine(2, "false", <<"h", "i", "g", "h">>, SomeReason)
    /\ ~probe.out.ok
    /\ QuotesLine(ReplyLines(Trim(probe.text)), 2)

\* the lines of the reply that begin with the marker of restaurant i
MarkedLines(lines, i) ==
    {k \in 1..Len(lines) : MatchAt(lines[k], Marker(i), 1)}

\* C25 as stated: every verdict the parser returns for position i is the one
\* parsed from the reply line marked 'Restaurant i:', never from the line of
\* another restaurant.
C25_VerdictFromOwnLine ==
    ParseDone /\ probe.out.ok =>
        \A lines \in {ReplyLines(Trim(probe.text))} :
        \A i \in 1..Len(probe.restaurants) :
            \E k \in MarkedLines(lines, i) :
                /\ probe.out.verdicts[i].confidence
                     = Min(Max(ConfidenceOf(lines[k]), 0), 100)
                /\ probe.out.verdicts[i].reasoning = ReasoningOf(lines[k])
                /\ probe.out.verdicts[i].hasExactDish
                     = Includes(lines[k], <<"hasExact=", "true">>)

---------------------------------------------------------------------------
(* Function-level specification of the Review Miner and the Taste Profiler. *)

MaxReviews == 4

InitMiner ==
    /\ Idle
    /\ \E f \in {"menu", "taste"} : \E n \in 0..MaxReviews : \E g \in GenSamples :
          probe = [fn |-> f, reviews |-> Reviews(n), kind |-> g.kind,
                   gen |-> g.gen, done |-> FALSE, out |-> <<>>]

ApplyMenu ==
    /\ probe.fn = "menu"
    /\ ~probe.done
    /\ probe' = [probe EXCEPT !.done = TRUE,
                    !.out = extractMenuFromReviews(probe.reviews, probe.gen)]
    /\ UNCHANGED pipelineVars

ApplyTaste ==
    /\ probe.fn = "taste"
    /\ ~probe.done
    /\ probe' = [probe EXCEPT !.done = TRUE,
                    !.out = extractTasteProfile(probe.reviews, PlaceName(1),
                                                probe.gen)]
    /\ UNCHANGED pipelineVars

NextMiner == ApplyMenu \/ ApplyTaste

SpecMiner == InitMiner /\ [][NextMiner]_vars

MinerDone(f) == probe.fn = f /\ probe.done

\* C8: the Review Miner never raises; without reviews it returns
\* {dishes: [], confidence: 0} and makes no model call; when the call fails or
\* the reply holds no parsable JSON array it returns {dishes: [], confidence: 10}.
C8_MenuDegrades ==
    MinerDone("menu") =>
        /\ ~probe.out.raised
        /\ Len(probe.reviews) = 0 =>
              /\ probe.out.value = [dishes |-> <<>>, confidence |-> 0]
              /\ probe.out.calls = 0
        /\ Len(probe.reviews) > 0 /\ probe.kind # "array" =>
              probe.out.value = [dishes |-> <<>>, confidence |-> 10]

\* The miner was given reviews and a truncated JSON reply that still matches
\* the bracket pattern, and degraded to the default.
C8_Witness ==
    /\ MinerDone("menu")
    /\ Len(probe.reviews) > 0
    /\ probe.gen = GenText(<<"[", "\"Pho\"", ",", "[", "\"Tacos\"", "]">>)
    /\ probe.out.value.confidence = 10

\* C9: the Taste Profiler never raises; without reviews it returns
\* {flavors: [], style: 'Unknown', confidence: 0} and makes no model call; when
\* the call fails or the reply holds no parsable JSON object it returns
\* {flavors: [], style: 'Unknown', confidence: 20}.
C9_TasteDegrades ==
    MinerDone("taste") =>
        /\ ~probe.out.raised
        /\ Len(probe.reviews) = 0 =>
              /\ probe.out.value = [flavors |-> ArrVal(<<>>),
                                    style |-> StrVal("\"Unknown\""),
                                    others |-> {}, confidence |-> 0]
              /\ probe.out.calls = 0
        /\ Len(probe.reviews) > 0 /\ probe.kind # "object" =>
              probe.out.value = [flavors |-> ArrVal(<<>>),
                                 style |-> StrVal("\"Unknown\""),
                                 others |-> {}, confidence |-> 20]

\* The profiler was given reviews and a reply cut off inside the object, and
\* degraded to the default.
C9_Witness ==
    /\ MinerDone("taste")
    /\ Len(probe.reviews) > 0
    /\ probe.gen = GenText(<<"{", "\"flavors\"", ":", "{", "}", ",">>)
    /\ probe.out.value.confidence = 20

---------------------------------------------------------------------------
(* POST /analyze-dish.                                                      *)

\* a field the request body does not carry; a template literal renders it so
Undefined == <<"undefined">>

\* !x for a string field: undefined and '' are falsy
Blank(x) == x = Undefined \/ x = <<>>

\* a validation that tests the dish name only
MissingDishOnly(body) == Blank(body.dishName)

\* !dishName || !restaurantName
MissingNames(body) == Blank(body.dishName) \/ Blank(body.restaurantName)

DishNames == {Undefined, <<>>, Dish, <<"r", "a", "m", "e", "n">>}
RestaurantNames == {Undefined, <<>>, <<"K", "F", "C">>, <<"T", "a", "c", "o">>}
Addresses == {Undefined, <<>>, <<"A", "u", "s", "t", "i", "n">>}

\* request bodies: one that request.json() rejects, and the parsed ones
AnalyzeBodies ==
    {[parsed |-> FALSE, dishName |-> Undefined, restaurantName |-> Undefined,
      restaurantAddress |-> Undefined]}
      \cup [parsed : {TRUE}, dishName : DishNames,
            restaurantName : RestaurantNames, restaurantAddress : Addresses]

\* the head of the prompt, the three fields interpolated
AnalyzePrompt(body) ==
    <<"Provide a detailed flavor profile analysis for the dish \"">>
      \o body.dishName \o <<"\" from the restaurant \"">> \o body.restaurantName
      \o <<"\" located at \"">> \o body.restaurantAddress \o <<"\". ">>

\* what the generation call may answer
AnalyzeGens ==
    {GenFailed, GenEmpty, GenText(<<>>), GenText(<<" ", "\n">>), GenText(Prose),
     GenText(<<"\n", " ">> \o Prose \o <<"s", "p", "i", "c", "y", ".", "\n">>)}

NoAnswer == [status |-> 0, error |-> <<>>, analysis |-> Undefined]

\* NextResponse.json({ error }, { status })
AnalyzeError(status, error) ==
    [status |-> status, error |-> error, analysis |-> Undefined]

\* the catch block of the handler
AnalyzeCaught == AnalyzeError(500, <<"Failed to analyze dish">>)

\* NextResponse.json({ analysis })
AnalyzeOk(analysis) == [status |-> 200, error |-> <<>>, analysis |-> analysis]

InitAnalyze ==
    /\ Idle
    /\ \E b \in AnalyzeBodies :
          probe = [fn |-> "analyze", at |-> "start", body |-> b, prompt |-> <<>>,
                   calls |-> 0, gen |-> GenFailed, response |-> NoAnswer]

\* request.json(), the validation, and the issue of the generation call
AnalyzeValidate ==
    /\ probe.fn = "analyze"
    /\ probe.at = "start"
    /\ probe' =
          IF ~probe.body.parsed
          THEN [probe EXCEPT !.at = "done", !.response = AnalyzeCaught]
          ELSE IF MissingNames(probe.body)
          THEN [probe EXCEPT !.at = "done",
                   !.response = AnalyzeError(400,
                       <<"Dish name and restaurant name are required">>)]
          ELSE [probe EXCEPT !.at = "generating",
                   !.prompt = AnalyzePrompt(probe.body), !.calls = @ + 1]
    /\ UNCHANGED pipelineVars

\* the generation call settles: a rejection or a reply without a generation
\* ends in the catch block, a text is trimmed and returned
AnalyzeReply ==
    /\ probe.fn = "analyze"
    /\ probe.at = "generating"
    /\ \E gen \in AnalyzeGens :
          probe' = [probe EXCEPT !.at = "done", !.gen = gen,
                       !.response = IF ~gen.ok \/ gen.generations = 0
                                    THEN AnalyzeCaught
                                    ELSE AnalyzeOk(Trim(gen.text))]
    /\ UNCHANGED pipelineVars

NextAnalyze == AnalyzeValidate \/ AnalyzeReply

SpecAnalyze == InitAnalyze /\ [][NextAnalyze]_vars

\* the body names neither a dish nor a restaurant, or only one of them
NameMissing ==
    \/ probe.body.dishName \in {Undefined, <<>>}
    \/ probe.body.restaurantName \in {Undefined, <<>>}

\* C20: for a parsed body, POST /analyze-dish answers 400 without a generation
\* call when dishName or restaurantName is missing; otherwise it makes exactly
\* one generation call and answers 500 when that call yields no generation and
\* 200 with the generated text, trimmed, when it does.
C20_AnalyzeDishStatus ==
    probe.fn = "analyze" /\ probe.body.parsed =>
        /\ probe.calls <= 1
        /\ NameMissing =>
              /\ probe.calls = 0
              /\ probe.at = "done" => probe.response.status = 400
        /\ ~NameMissing /\ probe.at = "done" =>
              /\ probe.calls = 1
              /\ IF ~probe.gen.ok \/ probe.gen.generations = 0
                 THEN /\ probe.response.status = 500
                      /\ probe.response.analysis = Undefined
                 ELSE /\ probe.response.status = 200
                      /\ probe.response.analysis = Trim(probe.gen.text)

\* A request naming dish and restaurant but no address was answered 200 with
\* the text of the one generation, its surrounding white space removed.
C20_Witness ==
    /\ probe.fn = "analyze"
    /\ probe.at = "done"
    /\ probe.body.restaurantAddress = Undefined
    /\ probe.calls = 1
    /\ probe.response.status = 200
    /\ probe.response.analysis = Prose \o <<"s", "p", "i", "c", "y", ".">>

---------------------------------------------------------------------------
(* GET /nearby.                                                             *)

\* searchParams.get for a parameter the URL does not carry
NoParam == <<"null">>

\* !x for a query parameter: null and '' are falsy, '0' is not
MissingParam(x) == x = NoParam \/ x = <<>>

\* a validation that tests the latitude only
MissingLatOnly(lat, lng) == MissingParam(lat)

\* !lat || !lng
MissingCoords(lat, lng) == MissingParam(lat) \/ MissingParam(lng)

NaN == -999999999

\* the digits s starts with at position k
RECURSIVE DigitRun(_, _)
DigitRun(s, k) ==
    IF k <= Len(s) /\ IsDigit(s[k]) THEN <<s[k]>> \o DigitRun(s, k + 1) ELSE <<>>

\* parseFloat in thousandths: an optional sign, digits, an optional fraction,
\* whatever follows being ignored; NaN when no digit starts the number
ParseFloat(s) ==
    LET neg == Len(s) > 0 /\ s[1] = "-"
        at == IF Len(s) > 0 /\ s[1] \in {"-", "+"} THEN 2 ELSE 1
        whole == DigitRun(s, at)
        dot == at + Len(whole)
        frac == IF dot <= Len(s) /\ s[dot] = "." THEN DigitRun(s, dot + 1) ELSE <<>>
        milli == ParseInt(Slice(frac \o <<"0", "0", "0">>, 3))
        abs == 1000 * ParseInt(whole) + milli
    IN  IF Len(whole) = 0 /\ Len(frac) = 0 THEN NaN
        ELSE IF neg THEN 0 - abs ELSE abs

\* x + 0.001 in thousandths
PlusThousandth(x) == IF x = NaN THEN NaN ELSE x + 1

CoordParams ==
    {NoParam, <<>>, <<"0">>, <<"3", "0", ".", "2", "7">>, <<"-", "9", "7">>,
     <<"a", "b", "c">>}

\* mockRestaurants for the parsed coordinates
MockRestaurants(lat, lng) ==
    <<[name |-> "Spice House", placeId |-> "mock_1",
       location |-> [lat |-> lat, lng |-> lng]],
      [name |-> "Dragon Garden", placeId |-> "mock_2",
       location |-> [lat |-> PlusThousandth(lat), lng |-> PlusThousandth(lng)]]>>

InitMock ==
    /\ pc = "idle"
    /\ env \in Envs
    /\ req = <<>>
    /\ dishProfile = <<>>
    /\ queries = <<>>
    /\ searches = <<>>
    /\ places = <<>>
    /\ tasks = <<>>
    /\ ranked = <<>>
    /\ response = <<>>
    /\ calls = NoCalls
    /\ \E lat \in CoordParams : \E lng \in CoordParams :
          probe = [fn |-> "mock", lat |-> lat, lng |-> lng, done |-> FALSE,
                   status |-> 0, restaurants |-> <<>>, error |-> "", note |-> ""]

\* the handler: validation, then the mock list; no request leaves the server
GetNearby ==
    /\ probe.fn = "mock"
    /\ ~probe.done
    /\ probe' =
          IF MissingCoords(probe.lat, probe.lng)
          THEN [probe EXCEPT !.done = TRUE, !.status = 400,
                   !.error = "Latitude and longitude are required"]
          ELSE [probe EXCEPT !.done = TRUE, !.status = 200,
                   !.restaurants = MockRestaurants(ParseFloat(probe.lat),
                                                   ParseFloat(probe.lng)),
                   !.note = "Using mock data - configure Google Places API for real results"]
    /\ UNCHANGED pipelineVars

NextMock == GetNearby

SpecMock == InitMock /\ [][NextMock]_vars

\* C21: GET /nearby answers 400 when lat or lng is missing; otherwise it
\* answers with the two mock restaurants, whether or not the places key is
\* configured, and no upstream call is made in either case.
C21_MockOrBadRequest ==
    probe.fn = "mock" =>
        /\ calls = NoCalls
        /\ probe.done =>
              IF probe.lat \in {NoParam, <<>>} \/ probe.lng \in {NoParam, <<>>}
              THEN probe.status = 400 /\ probe.restaurants = <<>>
              ELSE /\ probe.status = 200
                   /\ Len(probe.restaurants) = 2
                   /\ probe.restaurants[1].name = "Spice House"
                   /\ probe.restaurants[1].placeId = "mock_1"
                   /\ probe.restaurants[2].name = "Dragon Garden"
                   /\ probe.restaurants[2].placeId = "mock_2"

\* Without the places key a request with both coordinates was answered with
\* the mock list placed at those coordinates.
C21_Witness ==
    /\ probe.fn = "mock"
    /\ probe.done
    /\ ~env.placesKey
    /\ probe.lat = <<"3", "0", ".", "2", "7">>
    /\ probe.status = 200
    /\ probe.restaurants[2].location.lat = 30271

---------------------------------------------------------------------------
(* POST /api/similarity.                                                    *)

\* the restaurant field of a body: absent, an object without a name, or an
\* object with one
NoRestaurantField == [given |-> FALSE, name |-> Undefined]
RestaurantField(name) == [given |-> TRUE, name |-> name]

\* !dish || !restaurant || !restaurant.name
SimilarityInvalid(body) ==
    Blank(body.dish) \/ ~body.restaurant.given \/ Blank(body.restaurant.name)

\* request bodies: one that request.json() rejects, and the parsed ones; the
\* README documents dish, location and userLocation
SimilarityBodies ==
    {[parsed |-> FALSE, dish |-> Undefined, restaurant |-> NoRestaurantField,
      location |-> Undefined, userLocation |-> FALSE]}
      \cup [parsed : {TRUE}, dish : DishNames,
            restaurant : {NoRestaurantField, RestaurantField(Undefined),
                          RestaurantField(<<>>), RestaurantField(<<"K", "F", "C">>)},
            location : {Undefined, <<"A", "u", "s", "t", "i", "n">>},
            userLocation : BOOLEAN]

\* one suggestion of the fallback parser
Suggestion(name, cuisine, reason, characteristics) ==
    [name |-> name, cuisine |-> cuisine, similarity_reason |-> reason,
     characteristics |-> characteristics]

\* currentSuggestion = {}
EmptySuggestion == Suggestion(<<>>, <<>>, <<>>, <<>>)

\* the suggestion returned when the text names no dish
DefaultSuggestion ==
    Suggestion(<<"Similar spicy chicken dishes">>, <<"Various">>,
               <<"Similar flavor profile and spice level">>,
               <<"Spicy, savory, with bold flavors">>)

\* line.split(':')[1]?.trim() || '' for a line that holds a colon
AfterColon(line) ==
    LET cs == {k \in 1..Len(line) : line[k] = ":"}
        a == CHOOSE x \in cs : \A y \in cs : x <= y
        later == {k \in cs : k > a}
        b == IF later = {} THEN Len(line) + 1
             ELSE CHOOSE x \in later : \A y \in later : x <= y
    IN  Trim(SubSeq(line, a + 1, b - 1))

\* the for loop of parseTextResponse from line k on
RECURSIVE TextLoop(_, _, _, _)
TextLoop(lines, k, current, suggestions) ==
    IF k > Len(lines)
    THEN IF current.name # <<>> THEN Append(suggestions, current) ELSE suggestions
    ELSE LET line == lines[k]
             Has(word) == Includes(line, <<word, ":">>)
         IN  IF Has("Dish") \/ Has("Name")
             THEN TextLoop(lines, k + 1,
                           Suggestion(AfterColon(line), <<>>, <<>>, <<>>),
                           IF current.name # <<>> THEN Append(suggestions, current)
                           ELSE suggestions)
             ELSE IF Has("Cuisine") \/ Has("Type")
             THEN TextLoop(lines, k + 1,
                           [current EXCEPT !.cuisine = AfterColon(line)], suggestions)
             ELSE IF Has("Similar because") \/ Has("Similarity")
             THEN TextLoop(lines, k + 1,
                           [current EXCEPT !.similarity_reason = AfterColon(line)],
                           suggestions)
             ELSE IF Has("Characteristics")
             THEN TextLoop(lines, k + 1,
                           [current EXCEPT !.characteristics = AfterColon(line)],
                           suggestions)
             ELSE TextLoop(lines, k + 1, current, suggestions)

\* parseTextResponse: the suggestions read from labelled lines, or the default
parseTextResponse(text) ==
    LET NotBlank(line) == Trim(line) # <<>>
        lines == SelectSeq(SplitLines(text), NotBlank)
        suggestions == TextLoop(lines, 1, EmptySuggestion, <<>>)
    IN  IF Len(suggestions) > 0 THEN suggestions ELSE <<DefaultSuggestion>>

\* the suggestions of a reply text: the JSON value between the first '[' and
\* the last ']', or what the fallback parser reads
SuggestionsOf(text) ==
    LET responseText == Trim(text)
        jsonMatch == GreedyMatch(responseText, "[", "]")
        parsed == JsonParse(jsonMatch)
    IN  IF jsonMatch # <<>> /\ parsed.ok
        THEN [from |-> "json", json |-> parsed.val, list |-> <<>>]
        ELSE [from |-> "text", json |-> NoVal, list |-> parseTextResponse(responseText)]

LabelledText ==
    <<"Dish", ":", " ", "P", "h", "o", "\n", "\n",
      "Cuisine", ":", " ", "T", "h", "a", "i", "\n",
      "Name", ":", "\n",
      "Dish", ":", " ", "B", "u", "n", ":", "x", "\n",
      "Characteristics", ":", "h", "o", "t">>

\* what the generation call may answer
SimilarityGens ==
    {GenFailed, GenEmpty, GenText(Prose \o ArrayText(2)), GenText(ArrayText(0)),
     GenText(<<"[", "\"Pho\"", ",">> \o Prose \o <<"]">>), GenText(Prose),
     GenText(<<"Dish", ":", " ", "P", "h", "o", "\n", "Type", ":", " ", "T", "h", "a", "i">>),
     GenText(LabelledText)}

NoSuggestions == [from |-> "none", json |-> NoVal, list |-> <<>>]

InitSimilarity ==
    /\ Idle
    /\ \E b \in SimilarityBodies :
          probe = [fn |-> "similarity", at |-> "start", body |-> b, calls |-> 0,
                   gen |-> GenFailed, status |-> 0, suggestions |-> NoSuggestions]

\* request.json(), the validation, and the issue of the generation call
SimilarityValidate ==
    /\ probe.fn = "similarity"
    /\ probe.at = "start"
    /\ probe' =
          IF ~probe.body.parsed
          THEN [probe EXCEPT !.at = "done", !.status = 500]
          ELSE IF SimilarityInvalid(probe.body)
          THEN [probe EXCEPT !.at = "done", !.status = 400]
          ELSE [probe EXCEPT !.at = "generating", !.calls = @ + 1]
    /\ UNCHANGED pipelineVars

\* the generation call settles: a rejection or a reply without a generation
\* ends in the outer catch block, a text is read for suggestions
SimilarityReply ==
    /\ probe.fn = "similarity"
    /\ probe.at = "generating"
    /\ \E gen \in SimilarityGens :
          probe' =
             IF ~gen.ok \/ gen.generations = 0
             THEN [probe EXCEPT !.at = "done", !.gen = gen, !.status = 500]
             ELSE [probe EXCEPT !.at = "done", !.gen = gen, !.status = 200,
                      !.suggestions = SuggestionsOf(gen.text)]
    /\ UNCHANGED pipelineVars

NextSimilarity == SimilarityValidate \/ SimilarityReply

SpecSimilarity == InitSimilarity /\ [][NextSimilarity]_vars

\* the body the README documents: dish, location and userLocation, and no
\* restaurant
ReadmeBody ==
    /\ probe.body.parsed
    /\ probe.body.dish \notin {Undefined, <<>>}
    /\ probe.body.location # Undefined
    /\ probe.body.userLocation
    /\ ~probe.body.restaurant.given

\* C22 as stated: a request with the body the README documents is not
\* answered with a client error: it reaches the generation call and ends in
\* suggestions or a server error.
C22_ReadmeBodyAccepted ==
    probe.fn = "similarity" /\ probe.at = "done" /\ ReadmeBody =>
        /\ probe.status # 400
        /\ probe.calls = 1
        /\ probe.status = 200 => probe.suggestions # NoSuggestions

---------------------------------------------------------------------------
(* The page: the result list, the selected restaurant and the dish-analysis *)
(* form.  The state is that of the component's hooks; pending is the        *)
(* analyze request in flight, and analysisFor records the restaurant named  *)
(* in the request whose outcome dishAnalysis holds.                         *)

\* selectedRestaurant === null
NoSelection == 0

NoRequest == [dishName |-> <<>>, restaurant |-> NoSelection]

\* the lists a search may put on the page, restaurants named by placeId
RestaurantLists == {<<>>, <<1, 2>>, <<1, 2, 3>>}

\* what the user may type in the dish field
TypedDishes == {<<>>, <<" ">>, <<"p", "h", "o">>}

\* response.data.analysis for a request: the text about its dish and
\* restaurant, or an empty text
Analyses(request) ==
    {<<"Analysis of ">> \o request.dishName \o <<" at ">>
        \o NumToText(request.restaurant), <<>>}

SorryText == <<"Sorry, we couldn't analyze this dish at the moment.">>

InitPage ==
    /\ Idle
    /\ probe = [fn |-> "page", isLoading |-> FALSE, restaurants |-> <<>>,
                selectedRestaurant |-> NoSelection, dishToAnalyze |-> <<>>,
                isAnalyzingDish |-> FALSE, dishAnalysis |-> <<>>,
                pending |-> NoRequest, analysisFor |-> NoSelection]

\* handleSearchSubmit with a dish, a place and a location: the button is
\* enabled while no search is loading
SearchSubmit ==
    /\ probe.fn = "page"
    /\ ~probe.isLoading
    /\ probe' = [probe EXCEPT !.isLoading = TRUE,
                              !.selectedRestaurant = NoSelection,
                              !.restaurants = <<>>]
    /\ UNCHANGED pipelineVars

\* the search request settles: the list is shown, or the error is
SearchSettled ==
    /\ probe.fn = "page"
    /\ probe.isLoading
    /\ \E ok \in BOOLEAN : \E list \in RestaurantLists :
          probe' = [probe EXCEPT !.isLoading = FALSE,
                                 !.restaurants = IF ok THEN list ELSE @]
    /\ UNCHANGED pipelineVars

\* handleSelectRestaurant: a click on the card of a listed restaurant
handleSelectRestaurant(restaurant) ==
    /\ probe.fn = "page"
    /\ restaurant \in Range(probe.restaurants)
    /\ probe' = [probe EXCEPT !.selectedRestaurant = restaurant,
                              !.dishAnalysis = <<>>,
                              !.dishToAnalyze = <<>>,
                              !.analysisFor = NoSelection]
    /\ UNCHANGED pipelineVars

\* onChange of the dish field, rendered for a selected restaurant and
\* disabled while an analysis runs
TypeDish(text) ==
    /\ probe.fn = "page"
    /\ probe.selectedRestaurant # NoSelection
    /\ ~probe.isAnalyzingDish
    /\ probe.dishToAnalyze # text
    /\ probe' = [probe EXCEPT !.dishToAnalyze = text]
    /\ UNCHANGED pipelineVars

\* handleAnalyzeDishSubmit up to its await: the form is rendered for a
\* selected restaurant, the button is enabled for a non-blank dish while no
\* analysis runs
AnalyzeSubmit ==
    /\ probe.fn = "page"
    /\ probe.selectedRestaurant # NoSelection
    /\ ~probe.isAnalyzingDish
    /\ Trim(probe.dishToAnalyze) # <<>>
    /\ probe' = [probe EXCEPT !.isAnalyzingDish = TRUE,
                              !.dishAnalysis = <<>>,
                              !.analysisFor = NoSelection,
                              !.pending = [dishName |-> probe.dishToAnalyze,
                                           restaurant |-> probe.selectedRestaurant]]
    /\ UNCHANGED pipelineVars

\* handleAnalyzeDishSubmit after its await: the reply or the apology is
\* stored, and the finally block clears the flag
AnalyzeSettled ==
    /\ probe.fn = "page"
    /\ probe.pending # NoRequest
    /\ \E text \in Analyses(probe.pending) \cup {SorryText} :
          probe' = [probe EXCEPT !.dishAnalysis = text,
                                 !.analysisFor = IF text = <<>> THEN NoSelection
                                                 ELSE probe.pending.restaurant,
                                 !.isAnalyzingDish = FALSE,
                                 !.pending = NoRequest]
    /\ UNCHANGED pipelineVars

NextPage ==
    \/ SearchSubmit
    \/ SearchSettled
    \/ \E restaurant \in 1..3 : handleSelectRestaurant(restaurant)
    \/ \E text \in TypedDishes : TypeDish(text)
    \/ AnalyzeSubmit
    \/ AnalyzeSettled

SpecPage == InitPage /\ [][NextPage]_vars

\* C30 as stated: a non-empty analysis text on the page of a selected
\* restaurant is the outcome of an analyze request issued for that
\* restaurant.
C30_AnalysisOfSelected ==
    /\ probe.fn = "page"
    /\ probe.dishAnalysis # <<>>
    /\ probe.selectedRestaurant # NoSelection
    => probe.analysisFor = probe.selectedRestaurant

===========================================================================
